---------------------------- MODULE Spec2Model ----------------------------
(***************************************************************************)
(* A model of the write path of aware_filter (src/aware_filter/insertion.py)*)
(* the rate limiter, the device identity resolver, the record              *)
(* transformer/writer and the batch insert handler, over an abstract       *)
(* relational store.                                                       *)
(*                                                                         *)
(* Python values are modelled as follows.  A dict is a TLA+ record (a      *)
(* function from field names to values); a list is a sequence; None is the *)
(* empty sequence and a value v that may be None is <<v>>.  A JSON request *)
(* body is tagged with its shape: [kind |-> "dict", rec |-> r] or          *)
(* [kind |-> "list", items |-> s].                                         *)
(***************************************************************************)
EXTENDS Integers, Sequences, FiniteSets, TLC

VARIABLES
    schema,     \* the set of table names that exist in the database
    db,         \* table name -> sequence of rows stored in it
    stats,      \* the Stats dict: counter name -> value
    writes,     \* history: every row the write path stored (a set), with its source
    calls,      \* number of insert_record calls made so far
    pc,         \* position of the insert_records handler: "idle" | "loop"
    batch,      \* locals of the running insert_records call
    last,       \* history: the insert_record call the last step made, if any
    resp,       \* history: how the last request of the write path ended
    rl_data,    \* rate limiter study: the input
    rl_table,   \* rate limiter study: the table name
    rl_first,   \* rate limiter study: apply_rate_limit(rl_data)
    rl_second,  \* rate limiter study: apply_rate_limit of the former's value
    q_store,    \* read path: table name -> the rows stored in it
    q_faults,   \* read path: table name -> "ok" | "noconn" | "error"
    q_last,     \* history: the last read-path call, its arguments and result
    c_run,      \* concurrent handlers: handler -> its position and locals
    c_events    \* history: counter name -> events of that kind so far

vars == <<schema, db, stats, writes, calls, pc, batch, last, resp,
          rl_data, rl_table, rl_first, rl_second, q_store, q_faults, q_last,
          c_run, c_events>>

write_vars == <<schema, db, stats, writes, calls, pc, batch, last, resp>>
rl_vars == <<rl_data, rl_table, rl_first, rl_second>>
q_vars == <<q_store, q_faults, q_last>>
c_vars == <<c_run, c_events>>

\* the read path before any call, on an empty store
QueryIdle ==
    /\ q_store = <<>>
    /\ q_faults = <<>>
    /\ q_last = [op |-> "none"]

\* no handler running concurrently
ConcurrentIdle ==
    /\ c_run = <<>>
    /\ c_events = <<>>

---------------------------------------------------------------------------
(* Bounds of the model *)

\* longest list handed to apply_rate_limit in the rate limiter study
MaxBatch == 3
\* number of insert_record calls in one behaviour
MaxCalls == 2
\* most rows in sensor and in sensor_transformed in the small stores
MaxRows == 2
\* most parameters in one query string
MaxArgs == 3

---------------------------------------------------------------------------
(* Python values *)

None == <<>>
Some(v) == <<v>>

\* dict.get(key): the value, or None
DictGet(record, key) == IF key \in DOMAIN record THEN Some(record[key]) ELSE None

\* dict.get(key, default)
DictGetDefault(d, key, default) == IF key \in DOMAIN d THEN d[key] ELSE default

\* d[key] = value
DictSet(d, key, value) ==
    [k \in DOMAIN d \cup {key} |-> IF k = key THEN value ELSE d[k]]

DictBody(r) == [kind |-> "dict", rec |-> r]
ListBody(s) == [kind |-> "list", items |-> s]

\* all sequences over S of length at most n
SeqsUpTo(S, n) == UNION {[1..k -> S] : k \in 0..n}

---------------------------------------------------------------------------
(* The rate limiter: insertion.py, apply_rate_limit *)

general_rate_limit == 200000

rate_limits == [accelerometer |-> 200000]

\* rate_limits.get(table_name, general_rate_limit)
RateLimitFor(table_name) == DictGetDefault(rate_limits, table_name, general_rate_limit)

\* a plausible slip: the gap measured as a distance
GapSatisfiedAbs(timestamp, last_timestamp, limit) ==
    \/ timestamp - last_timestamp >= limit
    \/ last_timestamp - timestamp >= limit

\* (timestamp - last_timestamp) >= limit, both operands integers
GapSatisfied(timestamp, last_timestamp, limit) ==
    timestamp - last_timestamp >= limit

\* a plausible slip: last_timestamp assigned outside the if
NextLastTimestampAlways(kept, timestamp, last_timestamp) == timestamp

\* last_timestamp after one iteration of the loop
NextLastTimestamp(kept, timestamp, last_timestamp) ==
    IF kept THEN timestamp ELSE last_timestamp

\* The for loop of apply_rate_limit from position i on.  The result is
\* [exc, value]: exc is "none" and value the filtered list, or exc is
\* "TypeError" when the subtraction meets a None operand.
RECURSIVE RateLimitLoop(_, _, _, _, _)
RateLimitLoop(items, i, limit, last_timestamp, filtered_data) ==
    IF i > Len(items)
    THEN [exc |-> "none", value |-> ListBody(filtered_data)]
    ELSE LET record == items[i]
             timestamp == DictGet(record, "timestamp")
         IN  IF last_timestamp = None
             THEN RateLimitLoop(items, i + 1, limit,
                                NextLastTimestamp(TRUE, timestamp, last_timestamp),
                                Append(filtered_data, record))
             ELSE IF timestamp = None
             THEN [exc |-> "TypeError", value |-> ListBody(<<>>)]
             ELSE LET kept == GapSatisfied(timestamp[1], last_timestamp[1], limit)
                  IN  RateLimitLoop(items, i + 1, limit,
                                    NextLastTimestamp(kept, timestamp, last_timestamp),
                                    IF kept THEN Append(filtered_data, record)
                                            ELSE filtered_data)

apply_rate_limit(data, table_name) ==
    IF data.kind = "dict"
    THEN [exc |-> "none", value |-> data]
    ELSE RateLimitLoop(data.items, 1, RateLimitFor(table_name), None, <<>>)

---------------------------------------------------------------------------
(* The data the model draws its inputs from *)

TableNames == {"sensor", "accelerometer"}

\* f"{original_table_name}_transformed"
TransformedName(original_table_name) == original_table_name \o "_transformed"

AllTables == TableNames \cup {TransformedName(t) : t \in TableNames}

\* timestamps in microseconds, around the interval of 200000
Timestamps == {0, 100000, 199999, 200000, 400000}

\* records of the rate limiter study: with a timestamp, or without one
RateRecords ==
    {[timestamp |-> t, v |-> 1] : t \in Timestamps} \cup {[v |-> 1]}

RateInputs ==
    {ListBody(s) : s \in SeqsUpTo(RateRecords, MaxBatch)}
        \cup {DictBody(r) : r \in RateRecords}

NotRun == [exc |-> "not run", value |-> ListBody(<<>>)]

---------------------------------------------------------------------------
(* The rate limiter study: apply_rate_limit on bounded inputs *)

InitRate ==
    /\ schema = TableNames
    /\ db = [t \in AllTables |-> <<>>]
    /\ stats = [total_requests |-> 0, successful_inserts |-> 0,
                failed_inserts |-> 0, unauthorized_attempts |-> 0]
    /\ writes = {}
    /\ calls = 0
    /\ pc = "idle"
    /\ batch = [table |-> "", records |-> <<>>, idx |-> 0,
                success_count |-> 0, error_count |-> 0]
    /\ last = [op |-> "none"]
    /\ resp = [kind |-> "none"]
    /\ rl_data \in RateInputs
    /\ rl_table \in TableNames
    /\ rl_first = NotRun
    /\ rl_second = NotRun
    /\ QueryIdle
    /\ ConcurrentIdle

\* filtered = apply_rate_limit(data, table_name)
RateLimitApply ==
    /\ rl_first.exc = "not run"
    /\ rl_first' = apply_rate_limit(rl_data, rl_table)
    /\ UNCHANGED <<rl_data, rl_table, rl_second>>
    /\ UNCHANGED write_vars
    /\ UNCHANGED q_vars
    /\ UNCHANGED c_vars

\* apply_rate_limit(filtered, table_name), when the first call returned
RateLimitReapply ==
    /\ rl_first.exc = "none"
    /\ rl_second.exc = "not run"
    /\ rl_second' = apply_rate_limit(rl_first.value, rl_table)
    /\ UNCHANGED <<rl_data, rl_table, rl_first>>
    /\ UNCHANGED write_vars
    /\ UNCHANGED q_vars
    /\ UNCHANGED c_vars

NextRate == RateLimitApply \/ RateLimitReapply

SpecRate == InitRate /\ [][NextRate]_vars

---------------------------------------------------------------------------
(* The store and its environment *)

\* the rows of the device_lookup table, which the write path only reads
DeviceLookupRows == <<[id |-> 7, device_uuid |-> "d1"]>>

\* the records clients post: with a device_id that resolves, with one that
\* does not, without a device_id, and without a timestamp (this one also
\* carries a device_uid of the client's own)
WriteRecords ==
    { [device_id |-> "d1", timestamp |-> 0, v |-> 1],
      [device_id |-> "d2", timestamp |-> 100000, v |-> 1],
      [timestamp |-> 400000, v |-> 1],
      [device_id |-> "d1", device_uid |-> 99, v |-> 1] }

\* The storage steps of one insert_record call that the environment may let
\* fail: get_connection() in insert_record ("connect"), in
\* transform_and_write ("tconnect") and in get_device_uid ("lconnect"); the
\* existence probe, the device_lookup query, the INSERT into the transformed
\* table and the INSERT into the original table raising mysql Error.
Steps == {"connect", "tconnect", "probe", "lconnect", "lookup", "tinsert", "oinsert"}

\* The steps up to the write to the transformed table run one after the
\* other and the first one that fails ends them, so every subset of Steps
\* acts as one of these: at most one failing step before the INSERT into the
\* original table, and that INSERT failing or not.
FaultSets ==
    {F \cup O : F \in {{}} \cup {{f} : f \in Steps \ {"oinsert"}},
                O \in {{}, {"oinsert"}}}

\* one statement handed to cursor.execute, and whether it succeeded
Stmt(kind, table, row, ok) == [stmt |-> kind, table |-> table, row |-> row, ok |-> ok]

\* the rows the successful INSERT statements of stmts add to the tables
RECURSIVE ApplyStmts(_, _)
ApplyStmts(tables, stmts) ==
    IF stmts = <<>> THEN tables
    ELSE LET s == Head(stmts)
             next == IF s.stmt = "insert" /\ s.ok
                     THEN [tables EXCEPT ![s.table] = Append(@, s.row[1])]
                     ELSE tables
         IN  ApplyStmts(next, Tail(stmts))

---------------------------------------------------------------------------
(* The device identity resolver: insertion.py, get_device_uid *)

get_device_uid(device_id, faults) ==
    IF "lconnect" \in faults
    THEN [success |-> FALSE, device_uid |-> None,
          error |-> "Database connection failed", stmts |-> <<>>]
    ELSE IF "lookup" \in faults
    THEN [success |-> FALSE, device_uid |-> None, error |-> "Error",
          stmts |-> <<Stmt("lookup", "device_lookup", None, FALSE)>>]
    ELSE LET result == SelectSeq(DeviceLookupRows,
                                 LAMBDA row : row.device_uuid = device_id)
             q == <<Stmt("lookup", "device_lookup", None, TRUE)>>
         IN  IF result # <<>>
             THEN [success |-> TRUE, device_uid |-> Some(result[1].id),
                   error |-> "", stmts |-> q]
             ELSE [success |-> FALSE, device_uid |-> None,
                   error |-> "Device " \o device_id \o " not found in device_lookup",
                   stmts |-> q]

---------------------------------------------------------------------------
(* The record transformer/writer: insertion.py, transform_and_write *)

\* a plausible slip: device_uid added without leaving device_id out
TransformedRecordKeepsId(record, device_uid) ==
    [k \in DOMAIN record \cup {"device_uid"} |->
        IF k = "device_uid" THEN device_uid ELSE record[k]]

\* {k: v for k, v in record.items() if k != 'device_id'}, then
\* transformed_record['device_uid'] = device_uid
TransformedRecord(record, device_uid) ==
    [k \in (DOMAIN record \ {"device_id"}) \cup {"device_uid"} |->
        IF k = "device_uid" THEN device_uid ELSE record[k]]

\* a plausible slip: the failure is not counted
CountTransformationFailureNot(st) == st

\* stats['transformation_failures'] = stats.get('transformation_failures', 0) + 1
CountTransformationFailure(st) ==
    DictSet(st, "transformation_failures",
            DictGetDefault(st, "transformation_failures", 0) + 1)

\* a plausible slip: the write to the transformed table counted as an insert
CountSuccessfulTransformAsInsert(st) ==
    DictSet(st, "successful_inserts", st["successful_inserts"] + 1)

\* stats['successful_transforms'] = stats.get('successful_transforms', 0) + 1
CountSuccessfulTransform(st) ==
    DictSet(st, "successful_transforms",
            DictGetDefault(st, "successful_transforms", 0) + 1)

\* The result is [success, error, stats, stmts]: the returned pair, the stats
\* dict after the call and the statements the call executed, in order.
transform_and_write(record, original_table_name, st, sch, faults) ==
    LET transformed_table_name == TransformedName(original_table_name)
        probe_ok == transformed_table_name \in sch /\ "probe" \notin faults
        probe == <<Stmt("probe", transformed_table_name, None, probe_ok)>>
    IN  IF "device_id" \notin DOMAIN record
        THEN [success |-> TRUE, error |-> "", stats |-> st, stmts |-> <<>>]
        ELSE IF "tconnect" \in faults
        THEN [success |-> FALSE, error |-> "Database connection failed",
              stats |-> st, stmts |-> <<>>]
        ELSE IF ~probe_ok
        THEN [success |-> FALSE, error |-> "Transformed table does not exist",
              stats |-> st, stmts |-> probe]
        ELSE LET lk == get_device_uid(record.device_id, faults)
             IN  IF ~lk.success
                 THEN [success |-> FALSE, error |-> lk.error,
                       stats |-> CountTransformationFailure(st),
                       stmts |-> probe \o lk.stmts]
                 ELSE LET transformed_record ==
                              TransformedRecord(record, lk.device_uid[1])
                          ins_ok == "tinsert" \notin faults
                          ins == <<Stmt("insert", transformed_table_name,
                                        Some(transformed_record), ins_ok)>>
                      IN  IF ins_ok
                          THEN [success |-> TRUE, error |-> "",
                                stats |-> CountSuccessfulTransform(st),
                                stmts |-> probe \o lk.stmts \o ins]
                          ELSE [success |-> FALSE, error |-> "Error",
                                stats |-> CountTransformationFailure(st),
                                stmts |-> probe \o lk.stmts \o ins]

---------------------------------------------------------------------------
(* insertion.py, insert_record *)

\* a plausible slip: the fallback skipped whenever a transformation was tried
TransformDoneAfterAttempt(t) == t.success \/ t.stmts # <<>>

\* if transform_success: the insert is considered done
TransformDone(t) == t.success

\* a plausible slip: the refused call counted as a failed insert
ConnectionFailedCounted(st) ==
    [conn |-> FALSE, ok |-> FALSE, msg |-> "Database connection failed",
     stats |-> [st EXCEPT !["failed_inserts"] = @ + 1], stmts |-> <<>>]

\* if conn is None: return False, "Database connection failed"
ConnectionFailed(st) ==
    [conn |-> FALSE, ok |-> FALSE, msg |-> "Database connection failed",
     stats |-> st, stmts |-> <<>>]

\* The result is [conn, ok, msg, stats, stmts]: whether a connection was
\* obtained, the returned pair, the stats dict after the call and the
\* statements executed.
insert_record(data, table_name, st, sch, faults) ==
    IF "connect" \in faults
    THEN ConnectionFailed(st)
    ELSE LET t == transform_and_write(data, table_name, st, sch, faults)
         IN  IF TransformDone(t)
             THEN [conn |-> TRUE, ok |-> TRUE,
                   msg |-> "Data inserted successfully into transformed table",
                   stats |-> t.stats, stmts |-> t.stmts]
             ELSE LET ins_ok == table_name \in sch /\ "oinsert" \notin faults
                      ins == <<Stmt("insert", table_name, Some(data), ins_ok)>>
                  IN  IF ins_ok
                      THEN [conn |-> TRUE, ok |-> TRUE,
                            msg |-> "Data inserted successfully",
                            stats |-> [t.stats EXCEPT !["successful_inserts"] = @ + 1],
                            stmts |-> t.stmts \o ins]
                      ELSE [conn |-> TRUE, ok |-> FALSE, msg |-> "Error",
                            stats |-> [t.stats EXCEPT !["failed_inserts"] = @ + 1],
                            stmts |-> t.stmts \o ins]

\* the entries insert_record's successful INSERTs add to the history of writes
WriteLog(r, data) ==
    {[table |-> r.stmts[i].table, row |-> r.stmts[i].row[1], src |-> data] :
        i \in {j \in 1..Len(r.stmts) : r.stmts[j].stmt = "insert" /\ r.stmts[j].ok}}

\* the history record of one insert_record call
LastCall(r, data, table_name, st) ==
    [op |-> "insert_record", record |-> data, table |-> table_name,
     conn |-> r.conn, ok |-> r.ok, msg |-> r.msg, stmts |-> r.stmts,
     stats_before |-> st]

---------------------------------------------------------------------------
(* The batch insert handler: insertion.py, insert_records *)

\* the request bodies of at most n records
ListInputs(n) == {ListBody(s) : s \in SeqsUpTo(WriteRecords, n)}

\* how an insert_records call ended: returned (success, body), or raised
Returned(success, body, data, table_name, kept, processed) ==
    [kind |-> "return", success |-> success, body |-> body, data |-> data,
     table |-> table_name, kept |-> kept, processed |-> processed,
     status |-> IF success THEN 200 ELSE 500]

Raised(exc, data, table_name) ==
    [kind |-> "raise", success |-> FALSE, body |-> [error |-> exc], data |-> data,
     table |-> table_name, kept |-> <<>>, processed |-> 0, status |-> 500]

Init ==
    /\ schema \in {TableNames, TableNames \cup {TransformedName("sensor")}}
    /\ db = [t \in AllTables |-> <<>>]
    /\ stats = [total_requests |-> 0, successful_inserts |-> 0,
                failed_inserts |-> 0, unauthorized_attempts |-> 0]
    /\ writes = {}
    /\ calls = 0
    /\ pc = "idle"
    /\ batch = [table |-> "", records |-> <<>>, idx |-> 0,
                success_count |-> 0, error_count |-> 0]
    /\ last = [op |-> "none"]
    /\ resp = [kind |-> "none"]
    /\ rl_data = ListBody(<<>>)
    /\ rl_table = "sensor"
    /\ rl_first = NotRun
    /\ rl_second = NotRun
    /\ QueryIdle
    /\ ConcurrentIdle

\* POST /webservice/index/<study_id>/<password>/<table_name> with the study
\* password and a list as body: webservice_table_route counts the request
\* and calls insert_records, of which this is the empty-body test, the rate
\* limiter and the entry into the loop over the surviving records.  An
\* exception out of insert_records is answered with status 500.
InsertRecordsBegin ==
    /\ pc = "idle"
    /\ calls < MaxCalls
    /\ stats.total_requests + stats.unauthorized_attempts < MaxCalls
    /\ stats' = [stats EXCEPT !.total_requests = @ + 1]
    /\ \E table_name \in TableNames, data \in ListInputs(MaxCalls - calls) :
          LET rl == apply_rate_limit(data, table_name)
          IN  IF data.items = <<>>
              THEN /\ resp' = Returned(FALSE, [error |-> "no data"], data,
                                       table_name, <<>>, 0)
                   /\ UNCHANGED <<pc, batch>>
              ELSE IF rl.exc = "TypeError"
              THEN /\ resp' = Raised("TypeError", data, table_name)
                   /\ UNCHANGED <<pc, batch>>
              ELSE /\ pc' = "loop"
                   /\ batch' = [table |-> table_name, records |-> rl.value.items,
                                idx |-> 1, success_count |-> 0, error_count |-> 0]
                   /\ resp' = [kind |-> "running", data |-> data]
    /\ last' = [op |-> "none"]
    /\ UNCHANGED <<schema, db, writes, calls>>
    /\ UNCHANGED rl_vars
    /\ UNCHANGED q_vars
    /\ UNCHANGED c_vars

\* one iteration of the loop: insert_record on the next surviving record;
\* the last iteration returns the counts
InsertRecordsStep ==
    /\ pc = "loop"
    /\ \E faults \in FaultSets :
      \E r \in {insert_record(batch.records[batch.idx], batch.table, stats,
                              schema, faults)} :
          LET record == batch.records[batch.idx]
              success_count == batch.success_count + (IF r.ok THEN 1 ELSE 0)
              error_count == batch.error_count + (IF r.ok THEN 0 ELSE 1)
          IN  /\ stats' = r.stats
              /\ db' = ApplyStmts(db, r.stmts)
              /\ writes' = writes \cup WriteLog(r, record)
              /\ last' = LastCall(r, record, batch.table, stats)
              /\ calls' = calls + 1
              /\ batch' = [batch EXCEPT !.idx = @ + 1,
                                        !.success_count = success_count,
                                        !.error_count = error_count]
              /\ IF batch.idx = Len(batch.records)
                 THEN /\ pc' = "idle"
                      /\ resp' = Returned(TRUE,
                                          [status |-> "ok", inserted |-> success_count,
                                           errors |-> error_count],
                                          resp.data, batch.table, batch.records,
                                          batch.idx)
                 ELSE UNCHANGED <<pc, resp>>
    /\ UNCHANGED schema
    /\ UNCHANGED rl_vars
    /\ UNCHANGED q_vars
    /\ UNCHANGED c_vars

\* the same POST with a single record (a dict) as body: the request is
\* counted, then insert_records hands the record to insert_record
InsertRecordsSingle ==
    /\ pc = "idle"
    /\ calls < MaxCalls
    /\ stats.total_requests + stats.unauthorized_attempts < MaxCalls
    /\ \E table_name \in TableNames, record \in WriteRecords, faults \in FaultSets :
      \E counted \in {[stats EXCEPT !.total_requests = @ + 1]} :
      \E data \in {apply_rate_limit(DictBody(record), table_name).value} :
      \E r \in {insert_record(data.rec, table_name, counted, schema, faults)} :
              /\ stats' = r.stats
              /\ db' = ApplyStmts(db, r.stmts)
              /\ writes' = writes \cup WriteLog(r, data.rec)
              /\ last' = LastCall(r, data.rec, table_name, counted)
              /\ calls' = calls + 1
              /\ resp' = Returned(r.ok,
                                  IF r.ok THEN [status |-> "ok"] ELSE [error |-> r.msg],
                                  data, table_name, <<data.rec>>, 1)
    /\ UNCHANGED <<schema, pc, batch>>
    /\ UNCHANGED rl_vars
    /\ UNCHANGED q_vars
    /\ UNCHANGED c_vars

\* the same POST with a password other than the study password: the attempt
\* is counted and refused before the body is read
WebserviceRefused ==
    /\ pc = "idle"
    /\ stats.total_requests + stats.unauthorized_attempts < MaxCalls
    /\ stats' = [stats EXCEPT !.unauthorized_attempts = @ + 1]
    /\ resp' = [kind |-> "refused", success |-> FALSE,
                body |-> [error |-> "unauthorized"], status |-> 401]
    /\ last' = [op |-> "none"]
    /\ UNCHANGED <<schema, db, writes, calls, pc, batch>>
    /\ UNCHANGED rl_vars
    /\ UNCHANGED q_vars
    /\ UNCHANGED c_vars

\* auth.py: the life of a token, in hours (the default of the environment)
TOKEN_EXPIRY_HOURS == 24

\* POST /login: login(stats) with a body without password, with a wrong
\* password (the attempt is counted) or with the study password
Login ==
    /\ pc = "idle"
    /\ \E password \in {"missing", "wrong", "study"} :
          IF password = "missing"
          THEN /\ resp' = [kind |-> "login", success |-> FALSE,
                           body |-> [error |-> "missing password"], status |-> 400]
               /\ UNCHANGED stats
          ELSE IF password = "wrong"
          THEN /\ stats.total_requests + stats.unauthorized_attempts < MaxCalls
               /\ stats' = [stats EXCEPT !.unauthorized_attempts = @ + 1]
               /\ resp' = [kind |-> "login", success |-> FALSE,
                           body |-> [error |-> "invalid credentials"], status |-> 401]
          ELSE /\ resp' = [kind |-> "login", success |-> TRUE,
                           body |-> [token |-> "token",
                                     expires_in |-> TOKEN_EXPIRY_HOURS * 3600],
                           status |-> 200]
               /\ UNCHANGED stats
    /\ last' = [op |-> "none"]
    /\ UNCHANGED <<schema, db, writes, calls, pc, batch>>
    /\ UNCHANGED rl_vars
    /\ UNCHANGED q_vars
    /\ UNCHANGED c_vars

Next ==
    \/ InsertRecordsBegin
    \/ InsertRecordsStep
    \/ InsertRecordsSingle
    \/ WebserviceRefused
    \/ Login

Spec == Init /\ [][Next]_vars

---------------------------------------------------------------------------
(* Claims about the write path, checked under Spec *)

\* the last step was an insert_record call that obtained a connection
CallWithConnection == last.op = "insert_record" /\ last.conn

\* the statements of kind k the last call executed on table t
StmtsOf(k, t) ==
    {i \in 1..Len(last.stmts) : last.stmts[i].stmt = k /\ last.stmts[i].table = t}

\* the rows the last call stored in table t
RowsCreated(t) == Cardinality({i \in StmtsOf("insert", t) : last.stmts[i].ok})

\* the last call issued an INSERT of exactly the incoming record into its table
OriginalInsertIssued ==
    \E i \in StmtsOf("insert", last.table) : last.stmts[i].row = Some(last.record)

\* the value of a counter before and after the last call
Before(counter) == DictGetDefault(last.stats_before, counter, 0)
After(counter) == DictGetDefault(stats, counter, 0)

\* the last call probed the transformed table and the probe succeeded
ProbeSucceeded ==
    \E i \in StmtsOf("probe", TransformedName(last.table)) : last.stmts[i].ok

\* the last call probed the transformed table and the probe raised
ProbeFailed ==
    \E i \in StmtsOf("probe", TransformedName(last.table)) : ~last.stmts[i].ok

\* C1: single-write invariant: an insert_record call that had a connection
\* and reports success has created exactly one row, in exactly one of T and
\* T_transformed, whether or not the record has a device_id; and no call
\* creates a row in both.
C1_SingleWrite ==
    CallWithConnection =>
        /\ RowsCreated(last.table) + RowsCreated(TransformedName(last.table)) <= 1
        /\ last.ok =>
              RowsCreated(last.table) + RowsCreated(TransformedName(last.table)) = 1

\* C2: a record without a device_id is written directly to the original
\* table: no probe and no lookup is made, one INSERT of the record into T is
\* issued, and its success adds one to successful_inserts, its failure one
\* to failed_inserts.
C2_NoDeviceIdWritesOriginal ==
    (CallWithConnection /\ "device_id" \notin DOMAIN last.record) =>
        /\ StmtsOf("probe", TransformedName(last.table)) = {}
        /\ StmtsOf("lookup", "device_lookup") = {}
        /\ OriginalInsertIssued
        /\ last.ok => After("successful_inserts") = Before("successful_inserts") + 1
        /\ ~last.ok => After("failed_inserts") = Before("failed_inserts") + 1

\* C3: when the write to T_transformed succeeds, insert_record reports
\* success, issues no INSERT to the original table, adds one to
\* successful_transforms and leaves successful_inserts and failed_inserts as
\* they were.
C3_TransformedWriteCompletes ==
    (CallWithConnection /\ RowsCreated(TransformedName(last.table)) = 1) =>
        /\ last.ok
        /\ StmtsOf("insert", last.table) = {}
        /\ After("successful_transforms") = Before("successful_transforms") + 1
        /\ After("successful_inserts") = Before("successful_inserts")
        /\ After("failed_inserts") = Before("failed_inserts")

\* C3 witness: a record with a resolvable device_id went to an existing
\* transformed table.
C3_Witness ==
    /\ CallWithConnection
    /\ TransformedName(last.table) \in schema
    /\ RowsCreated(TransformedName(last.table)) = 1
    /\ last.ok

\* C4: when T_transformed exists and the transformation then fails (the
\* device_id does not resolve, or the INSERT into T_transformed fails),
\* transformation_failures grows by exactly one and the unmodified record,
\* device_id included, is INSERTed into the original table.
C4_FailedTransformFallsBack ==
    (CallWithConnection /\ ProbeSucceeded
        /\ RowsCreated(TransformedName(last.table)) = 0) =>
        /\ After("transformation_failures") = Before("transformation_failures") + 1
        /\ OriginalInsertIssued
        /\ "device_id" \in DOMAIN last.record

\* C4 witness: the INSERT into the transformed table failed and the record
\* was stored in the original table, after an earlier record whose device_id
\* did not resolve had been stored in the original table too.
C4_Witness ==
    /\ CallWithConnection
    /\ ProbeSucceeded
    /\ \E i \in StmtsOf("insert", TransformedName(last.table)) : ~last.stmts[i].ok
    /\ RowsCreated(last.table) = 1
    /\ \E w \in writes : w.table = last.table /\ w.src = w.row
                          /\ "device_id" \in DOMAIN w.src /\ w.src.device_id = "d2"

\* C5: when the existence probe finds no transformed table, the
\* transformation is skipped and not counted (transformation_failures and
\* successful_transforms unchanged, device_lookup not queried) and the
\* record, still with its device_id, is INSERTed into the original table.
C5_MissingTransformedTableSkips ==
    (CallWithConnection /\ ProbeFailed) =>
        /\ After("transformation_failures") = Before("transformation_failures")
        /\ After("successful_transforms") = Before("successful_transforms")
        /\ StmtsOf("lookup", "device_lookup") = {}
        /\ StmtsOf("insert", TransformedName(last.table)) = {}
        /\ OriginalInsertIssued
        /\ "device_id" \in DOMAIN last.record

\* C5 witness: the transformed table does not exist and the record was
\* stored in the original table.
C5_Witness ==
    /\ CallWithConnection
    /\ TransformedName(last.table) \notin schema
    /\ ProbeFailed
    /\ RowsCreated(last.table) = 1
    /\ last.ok

\* the id of the first device_lookup row for device_id, as a set: empty when
\* no row matches
ResolvedUids(device_id) ==
    LET hits == {i \in 1..Len(DeviceLookupRows) :
                    DeviceLookupRows[i].device_uuid = device_id}
    IN  {DeviceLookupRows[i].id : i \in {j \in hits : \A k \in hits : j <= k}}

IsTransformedTable(t) == t \in {TransformedName(o) : o \in TableNames}

\* C6: identity exclusivity: every row stored in a transformed table has no
\* device_id, has the device_uid that device_lookup gives for the device_id
\* of its source record and has every other field of the source unchanged;
\* every row stored in an original table is the incoming record; and the
\* tables hold exactly the rows stored.
C6_IdentityExclusivity ==
    /\ \A w \in writes :
          IF IsTransformedTable(w.table)
          THEN /\ "device_id" \notin DOMAIN w.row
               /\ "device_id" \in DOMAIN w.src
               /\ "device_uid" \in DOMAIN w.row
               /\ w.row.device_uid \in ResolvedUids(w.src.device_id)
               /\ DOMAIN w.row \ {"device_uid"} = DOMAIN w.src \ {"device_id", "device_uid"}
               /\ \A k \in DOMAIN w.row \ {"device_uid"} : w.row[k] = w.src[k]
          ELSE w.row = w.src
    /\ \A t \in AllTables :
          {db[t][i] : i \in 1..Len(db[t])} = {w.row : w \in {x \in writes : x.table = t}}

\* C6 witness: a record that came with a device_uid of its own was stored in
\* a transformed table under the resolved device_uid, and a record with a
\* device_id was stored in the original table.
C6_Witness ==
    \E t \in TableNames :
        /\ \E w \in writes : /\ w.table = TransformedName(t)
                              /\ "device_uid" \in DOMAIN w.src
                              /\ w.src.device_uid # w.row.device_uid
        /\ \E w \in writes : w.table = t /\ "device_id" \in DOMAIN w.row

\* C7: an insert_records call on a non-empty list always returns success
\* with status ok and counts, rate limiting first and then writing every
\* surviving record: inserted + errors is the number of survivors, each of
\* which was handed to insert_record.
C7_BatchAlwaysReturnsCounts ==
    (resp.kind \in {"return", "raise"} /\ resp.data.kind = "list"
        /\ resp.data.items # <<>>) =>
        /\ resp.kind = "return"
        /\ resp.success
        /\ resp.body.status = "ok"
        /\ resp.body.inserted + resp.body.errors = Len(resp.kept)
        /\ resp.processed = Len(resp.kept)
        /\ resp.kept = apply_rate_limit(resp.data, resp.table).value.items

---------------------------------------------------------------------------
(* Claims about the rate limiter, checked under SpecRate *)

HasTimestamp(record) == "timestamp" \in DOMAIN record

\* the number of records of s that carry no timestamp
CountNoTimestamp(s) == Cardinality({i \in 1..Len(s) : ~HasTimestamp(s[i])})

\* C8: rate limiter causality: whenever apply_rate_limit returns the kept
\* list K for a list S, K starts with the first record of S if S is not
\* empty, and the timestamps of any two adjacent kept records are at least
\* the configured interval apart, whatever the order of the timestamps of S.
C8_RateLimiterCausality ==
    (rl_data.kind = "list" /\ rl_first.exc = "none") =>
        LET S == rl_data.items
            K == rl_first.value.items
            I == RateLimitFor(rl_table)
        IN  /\ S # <<>> => (K # <<>> /\ K[1] = S[1])
            /\ \A i \in 1..(Len(K) - 1) :
                  (HasTimestamp(K[i]) /\ HasTimestamp(K[i + 1])) =>
                      K[i + 1].timestamp - K[i].timestamp >= I

\* C8 witness: a list whose timestamps decrease somewhere was filtered and
\* at least two records were kept.
C8_Witness ==
    /\ rl_data.kind = "list"
    /\ rl_first.exc = "none"
    /\ \A i \in 1..Len(rl_data.items) : HasTimestamp(rl_data.items[i])
    /\ \E i \in 1..(Len(rl_data.items) - 1) :
          rl_data.items[i + 1].timestamp < rl_data.items[i].timestamp
    /\ Len(rl_first.value.items) >= 2

\* C9: rate limiter idempotence: applying apply_rate_limit to its own
\* output returns that output again, for lists and for single records.
C9_RateLimiterIdempotent ==
    rl_second.exc # "not run" =>
        (rl_second.exc = "none" /\ rl_second.value = rl_first.value)

\* C9 witness: the second application ran on a list from which the first
\* application dropped a record and kept at least two.
C9_Witness ==
    /\ rl_data.kind = "list"
    /\ rl_second.exc = "none"
    /\ Len(rl_first.value.items) >= 2
    /\ Len(rl_first.value.items) < Len(rl_data.items)

\* C10: apply_rate_limit never raises on a list holding records without a
\* timestamp, wherever they stand, and keeps every such record.
C10_MissingTimestampNeverRaises ==
    /\ rl_first.exc # "TypeError"
    /\ (rl_data.kind = "list" /\ rl_first.exc = "none") =>
          CountNoTimestamp(rl_first.value.items) = CountNoTimestamp(rl_data.items)

---------------------------------------------------------------------------
(* The read path: src/aware_filter/retrieval.py                            *)
(*                                                                         *)
(* A str of the query string is a sequence of chunks: "," is a comma, " "  *)
(* a blank, and any other chunk a run of text holding neither.  A value    *)
(* bound to a statement is tagged with its Python type: [str |-> t] or     *)
(* [num |-> n].  A WHERE fragment is the sequence of its tokens: the       *)
(* column, the operator and one "%s" per parameter it owns.  Rows come     *)
(* back in stored order, and every stored row of the read path has a value *)
(* in each column of its table.                                            *)

Str(t) == [str |-> t]
Num(n) == [num |-> n]

\* the characters of a str, as one TLA+ string
RECURSIVE Text(_)
Text(s) == IF s = <<>> THEN "" ELSE s[1] \o Text(Tail(s))

RECURSIVE LStrip(_)
LStrip(s) == IF s # <<>> /\ s[1] = " " THEN LStrip(Tail(s)) ELSE s

RECURSIVE RStrip(_)
RStrip(s) ==
    IF s # <<>> /\ s[Len(s)] = " " THEN RStrip(SubSeq(s, 1, Len(s) - 1)) ELSE s

\* str.strip()
strip(s) == RStrip(LStrip(s))

\* str.split(','): the pieces of s from chunk i on, cur being the open piece
RECURSIVE split(_, _, _)
split(s, i, cur) ==
    IF i > Len(s) THEN <<cur>>
    ELSE IF s[i] = "," THEN <<cur>> \o split(s, i + 1, <<>>)
    ELSE split(s, i + 1, Append(cur, s[i]))

\* [d.strip() for d in value.split(',') if d.strip()]
StrippedPieces(value) ==
    LET pieces == split(value, 1, <<>>)
        stripped == [i \in 1..Len(pieces) |-> strip(pieces[i])]
        kept == SelectSeq(stripped, LAMBDA d : d # <<>>)
    IN [i \in 1..Len(kept) |-> Text(kept[i])]

\* the decimal literals of the model and the integers they denote
IntLiterals ==
    ("0" :> 0) @@ ("1" :> 1) @@ ("2" :> 2) @@ ("3" :> 3) @@ ("4" :> 4)
    @@ ("6" :> 6) @@ ("-1" :> (0 - 1)) @@ ("50000" :> 50000) @@ ("60000" :> 60000)

\* int(value): the integer, or ValueError
int(value) ==
    LET t == Text(strip(value))
    IN IF t \in DOMAIN IntLiterals
       THEN [exc |-> "none", value |-> IntLiterals[t]]
       ELSE [exc |-> "ValueError", value |-> 0]

\* request_args.get(key): the value of the first pair with that key, or None
RECURSIVE ArgsGet(_, _)
ArgsGet(request_args, key) ==
    IF request_args = <<>> THEN None
    ELSE IF request_args[1].key = key THEN Some(request_args[1].value)
    ELSE ArgsGet(Tail(request_args), key)

---------------------------------------------------------------------------
(* The statements of the read path over the store *)

\* the columns of the tables the read path is studied on
QueryColumns ==
    [device_lookup |-> {"id", "device_uuid"},
     sensor |-> {"device_id", "timestamp", "v"},
     sensor_transformed |-> {"device_uid", "timestamp", "v"}]

\* columns holding text; the others hold numbers
TextColumns == {"device_id", "device_uuid"}

\* a WHERE fragment: f'`{column}` {op} %s' or f'`{column}` IN (%s, ..., %s)'
Fragment(column, op, n) == <<column, op>> \o [i \in 1..n |-> "%s"]

\* condition.count('%s')
CountPlaceholders(condition) ==
    Cardinality({i \in 1..Len(condition) : condition[i] = "%s"})

RECURSIVE TotalPlaceholders(_)
TotalPlaceholders(conditions) ==
    IF conditions = <<>> THEN 0
    ELSE CountPlaceholders(conditions[1]) + TotalPlaceholders(Tail(conditions))

\* the number a bound value is compared as against a numeric column
SqlNumber(p) ==
    IF "num" \in DOMAIN p THEN p.num
    ELSE IF p.str \in DOMAIN IntLiterals THEN IntLiterals[p.str] ELSE 0

\* column = value
SqlEquals(column, v, p) ==
    IF column \in TextColumns /\ "str" \in DOMAIN p THEN v = p.str
    ELSE IF column \in TextColumns THEN FALSE
    ELSE v = SqlNumber(p)

\* one fragment against one row, own being the parameters the fragment owns
FragmentHolds(row, condition, own) ==
    LET column == condition[1]
        op == condition[2]
    IN CASE op = "=" -> SqlEquals(column, row[column], own[1])
         [] op = "IN" -> \E i \in 1..Len(own) : SqlEquals(column, row[column], own[i])
         [] op = ">=" -> row[column] >= SqlNumber(own[1])
         [] op = "<=" -> row[column] <= SqlNumber(own[1])

\* the conjunction ' AND '.join(conditions) against one row
RECURSIVE WhereHolds(_, _, _)
WhereHolds(row, conditions, params) ==
    IF conditions = <<>> THEN TRUE
    ELSE LET k == CountPlaceholders(conditions[1])
         IN /\ FragmentHolds(row, conditions[1], SubSeq(params, 1, k))
            /\ WhereHolds(row, Tail(conditions), SubSeq(params, k + 1, Len(params)))

\* the rows of a table a WHERE clause selects, in stored order
Matching(rows, conditions, params) ==
    SelectSeq(rows, LAMBDA row : WhereHolds(row, conditions, params))

\* LIMIT limit OFFSET offset
LimitOffset(rows, limit, offset) ==
    SubSeq(rows, offset + 1, IF offset + limit < Len(rows) THEN offset + limit ELSE Len(rows))

\* the statement is one the server refuses (mysql.connector.Error)
StatementRefused(table_name, conditions, params, limit, offset, tables) ==
    \/ table_name \notin DOMAIN tables
    \/ \E i \in 1..Len(conditions) : conditions[i][1] \notin QueryColumns[table_name]
    \/ TotalPlaceholders(conditions) # Len(params)
    \/ limit < 0
    \/ offset < 0

---------------------------------------------------------------------------
(* query_table *)

\* retrieval.py, query_table: the default page size and the hard ceiling
DEFAULT_LIMIT == 10000
MAX_LIMIT == 50000

\* a failed call: (False, {'error': error}, status_code); storage tells
\* whether get_connection() had been called
QueryFailure(error, status_code, storage) ==
    [success |-> FALSE, body |-> [error |-> error], status |-> status_code,
     storage |-> storage]

\* (offset + len(results)) < total_count
HasMoreInclusive(offset, count, total_count) == (offset + count) <= total_count

HasMore(offset, count, total_count) == (offset + count) < total_count

\* the value of the one-element set S: Only({F(x) : x \in {e}}) is F(e) with
\* e evaluated once
Only(S) == CHOOSE x \in S : TRUE

\* lines 195-208: the response of a successful query_table call
QueryResponse(results, total_count, limit, offset) ==
    [success |-> TRUE,
     body |-> [data |-> results,
               count |-> Len(results),
               total_count |-> total_count,
               limit |-> limit,
               offset |-> offset,
               has_more |-> HasMore(offset, Len(results), total_count)],
     status |-> 200,
     storage |-> TRUE]

\* query_table(table_name, conditions, params, limit, offset) over the store
\* tables; faults[t] is "ok", "noconn" (get_connection() returns None) or
\* "error" (the server raises Error on a statement naming t)
query_table(table_name, conditions, params, limit, offset, tables, faults) ==
    IF table_name = "" THEN QueryFailure("missing table name", 400, FALSE)
    ELSE IF limit # None /\ limit[1] > MAX_LIMIT
    THEN QueryFailure("limit cannot exceed", 400, FALSE)
    ELSE
    LET lim == IF limit = None THEN DEFAULT_LIMIT ELSE limit[1]
        off == IF offset = None THEN 0 ELSE offset[1]
        fault == IF table_name \in DOMAIN faults THEN faults[table_name] ELSE "ok"
        where == IF conditions # <<>> /\ params # <<>> THEN conditions ELSE <<>>
        bound == IF conditions # <<>> /\ params # <<>> THEN params ELSE <<>>
    IN IF fault = "noconn"
       THEN QueryFailure("database connection failed", 503, TRUE)
       ELSE IF fault = "error"
               \/ StatementRefused(table_name, where, bound, lim, off, tables)
       THEN QueryFailure("storage error", 500, TRUE)
       ELSE Only({QueryResponse(LimitOffset(matching, lim, off), Len(matching),
                                lim, off) :
                     matching \in {Matching(tables[table_name], where, bound)}})

\* the record query_data's trace keeps of one query_table call
Issued(table_name, conditions, params, r) ==
    [table |-> table_name, conditions |-> conditions, params |-> params,
     success |-> r.success, status |-> r.status,
     count |-> IF r.success THEN r.body.count ELSE 0]

---------------------------------------------------------------------------
(* query_data *)

\* line 250: the lookup found the device
FoundNever(r) == FALSE

Found(r) == r.success /\ r.body.data # <<>>

\* lines 248-252: look every device_id up in device_lookup, keeping the uid
\* of each one found; acc is [device_uids, queries]
RECURSIVE LookupLoop(_, _, _, _, _)
LookupLoop(device_ids, i, acc, tables, faults) ==
    IF i > Len(device_ids) THEN acc
    ELSE
    LET conditions == <<Fragment("device_uuid", "=", 1)>>
        params == <<Str(device_ids[i])>>
        r == query_table("device_lookup", conditions, params, None, None,
                         tables, faults)
        found == Found(r)
    IN LookupLoop(device_ids, i + 1,
                  [device_uids |-> IF found
                                   THEN Append(acc.device_uids, r.body.data[1].id)
                                   ELSE acc.device_uids,
                   queries |-> Append(acc.queries,
                                      Issued("device_lookup", conditions, params, r))],
                  tables, faults)

\* the state of the loop over request_args.items() (lines 254-300); ret is
\* the early return, if any, and exc the exception raised, if any
ParseStart ==
    [conditions |-> <<>>, params |-> <<>>, limit |-> None, offset |-> None,
     device_id_index |-> None, ret |-> None, exc |-> "none"]

Reject(st, error) ==
    [st EXCEPT !.ret = Some([success |-> FALSE, body |-> [error |-> error],
                             status |-> 400])]

AddCondition(st, condition, values) ==
    [st EXCEPT !.conditions = Append(@, condition), !.params = @ \o values]

\* one iteration of the loop, on the pair (key, value)
ParseArg(st, key, value, device_id_param) ==
    CASE key = "table" -> st
      [] key = "device_id" ->
            IF device_id_param = None \/ device_id_param[1] = <<>> THEN st
            ELSE LET device_ids == StrippedPieces(device_id_param[1])
                     marked == [st EXCEPT !.device_id_index = Some(Len(st.conditions))]
                 IN IF Len(device_ids) > 1
                    THEN AddCondition(marked,
                                      Fragment("device_id", "IN", Len(device_ids)),
                                      [i \in 1..Len(device_ids) |-> Str(device_ids[i])])
                    ELSE IF device_ids = <<>>
                    THEN [AddCondition(marked, Fragment("device_id", "=", 1), <<>>)
                             EXCEPT !.exc = "IndexError"]
                    ELSE AddCondition(marked, Fragment("device_id", "=", 1),
                                      <<Str(device_ids[1])>>)
      [] key = "start_time" ->
            AddCondition(st, Fragment("timestamp", ">=", 1), <<Str(Text(value))>>)
      [] key = "end_time" ->
            AddCondition(st, Fragment("timestamp", "<=", 1), <<Str(Text(value))>>)
      [] key = "limit" ->
            LET n == int(value)
            IN IF n.exc = "ValueError" THEN Reject(st, "limit must be a valid integer")
               ELSE IF n.value <= 0
               THEN Reject([st EXCEPT !.limit = Some(n.value)], "limit must be positive")
               ELSE [st EXCEPT !.limit = Some(n.value)]
      [] key = "offset" ->
            LET n == int(value)
            IN IF n.exc = "ValueError" THEN Reject(st, "offset must be a valid integer")
               ELSE IF n.value < 0
               THEN Reject([st EXCEPT !.offset = Some(n.value)],
                           "offset must be non-negative")
               ELSE [st EXCEPT !.offset = Some(n.value)]
      [] OTHER ->
            IF \E i \in 1..Len(value) : value[i] = ","
            THEN LET values == StrippedPieces(value)
                 IN IF values = <<>>
                    THEN Reject(st, "invalid comma-separated list")
                    ELSE AddCondition(st, Fragment(key, "IN", Len(values)),
                                      [i \in 1..Len(values) |-> Str(values[i])])
            ELSE AddCondition(st, Fragment(key, "=", 1), <<Str(Text(value))>>)

\* the loop: it stops at the first return or exception
RECURSIVE ParseArgs(_, _, _, _)
ParseArgs(request_args, i, st, device_id_param) ==
    IF i > Len(request_args) \/ st.ret # None \/ st.exc # "none" THEN st
    ELSE ParseArgs(request_args, i + 1,
                   ParseArg(st, request_args[i].key, request_args[i].value,
                            device_id_param),
                   device_id_param)

\* param_offset after a fragment that is skipped
SkipKeepsOffset(param_offset, param_count) == param_offset

SkipParams(param_offset, param_count) == param_offset + param_count

\* lines 317-331: the conditions and params of the transformed query before
\* the device_uid fragment is added; i counts from 0 as enumerate() does
RECURSIVE TransformedLoop(_, _, _, _, _, _)
TransformedLoop(conditions, params, i, device_id_index, param_offset, acc) ==
    IF i >= Len(conditions) THEN acc
    ELSE
    LET condition == conditions[i + 1]
        param_count == CountPlaceholders(condition)
    IN IF device_id_index = Some(i)
       THEN TransformedLoop(conditions, params, i + 1, device_id_index,
                            SkipParams(param_offset, param_count), acc)
       ELSE TransformedLoop(conditions, params, i + 1, device_id_index,
                            param_offset + param_count,
                            [conditions |-> Append(acc.conditions, condition),
                             params |-> acc.params \o
                                        SubSeq(params, param_offset + 1,
                                               IF param_offset + param_count < Len(params)
                                               THEN param_offset + param_count
                                               ELSE Len(params))])

\* lines 333-340: the device_uid fragment over the resolved uids
WithDeviceUids(t, device_uids) ==
    IF Len(device_uids) > 1
    THEN [conditions |-> Append(t.conditions,
                                Fragment("device_uid", "IN", Len(device_uids))),
          params |-> t.params \o [i \in 1..Len(device_uids) |-> Num(device_uids[i])]]
    ELSE [conditions |-> Append(t.conditions, Fragment("device_uid", "=", 1)),
          params |-> Append(t.params, Num(device_uids[1]))]

\* retrieval.py line 355: the default page size of the merged result
MERGED_DEFAULT_LIMIT == 10000

\* x.get('timestamp', 0)
SortKey(x) == DictGetDefault(x, "timestamp", 0)

TimestampBefore(a, b) == SortKey(a) < SortKey(b)

\* lines 347-348: the stable sort by timestamp, when the first row has one
SortUnsorted(all_data) == all_data

SortByTimestamp(all_data) ==
    IF all_data # <<>> /\ "timestamp" \in DOMAIN all_data[1]
    THEN SortSeq(all_data, TimestampBefore)
    ELSE all_data

\* all_data[offset:offset + limit], for offset >= 0 and limit > 0
Page(all_data, offset, limit) ==
    SubSeq(all_data, offset + 1,
           IF offset + limit < Len(all_data) THEN offset + limit ELSE Len(all_data))

\* the rows a sub-query contributes: if success and response_dict.get('data')
Contribution(r) == IF r.success THEN r.body.data ELSE <<>>

\* lines 310-344: the query of the transformed table, made when a uid was
\* resolved: the call it issues and the rows it contributes
QueryTransformed(table_name, st, device_uids, tables, faults) ==
    IF device_uids = <<>> THEN [queries |-> <<>>, data |-> <<>>]
    ELSE
    LET transformed_table_name == TransformedName(table_name)
        t == WithDeviceUids(
                 TransformedLoop(st.conditions, st.params, 0, st.device_id_index,
                                 0, [conditions |-> <<>>, params |-> <<>>]),
                 device_uids)
    IN Only({[queries |-> <<Issued(transformed_table_name, t.conditions,
                                   t.params, r_t)>>,
              data |-> Contribution(r_t)] :
                r_t \in {query_table(transformed_table_name, t.conditions,
                                     t.params, None, None, tables, faults)}})

\* lines 350-368: the page of the merged rows and the response
MergedResponse(all_data, limit, offset, queries) ==
    Only({[success |-> TRUE,
           body |-> [data |-> paginated_data,
                     count |-> Len(paginated_data),
                     total_count |-> Len(all_data),
                     limit |-> limit,
                     offset |-> offset,
                     has_more |-> HasMore(offset, Len(paginated_data), Len(all_data))],
           status |-> 200,
           queries |-> queries] :
              paginated_data \in {Page(all_data, offset, limit)}})

\* query_data(table_name, request_args) over the store tables under faults;
\* queries is the trace of its query_table calls
query_data(table_name, request_args, tables, faults) ==
    LET device_id_param == ArgsGet(request_args, "device_id")
        given == device_id_param # None /\ device_id_param[1] # <<>>
        looked == IF given
                  THEN LookupLoop(StrippedPieces(device_id_param[1]), 1,
                                  [device_uids |-> <<>>, queries |-> <<>>],
                                  tables, faults)
                  ELSE [device_uids |-> <<>>, queries |-> <<>>]
        st == ParseArgs(request_args, 1, ParseStart, device_id_param)
    IN IF st.exc # "none"
       THEN [success |-> FALSE, body |-> [error |-> st.exc], status |-> 500,
             queries |-> looked.queries]
       ELSE IF st.ret # None
       THEN [success |-> FALSE, body |-> st.ret[1].body, status |-> st.ret[1].status,
             queries |-> looked.queries]
       ELSE
       Only({Only({MergedResponse(
                       all_data,
                       IF st.limit = None THEN MERGED_DEFAULT_LIMIT ELSE st.limit[1],
                       IF st.offset = None THEN 0 ELSE st.offset[1],
                       looked.queries
                           \o <<Issued(table_name, st.conditions, st.params, r)>>
                           \o r_t.queries) :
                      all_data \in {SortByTimestamp(Contribution(r) \o r_t.data)}}) :
                r \in {query_table(table_name, st.conditions, st.params, None, None,
                                   tables, faults)},
                r_t \in {QueryTransformed(table_name, st, looked.device_uids,
                                          tables, faults)}})

---------------------------------------------------------------------------
(* The read path as a state machine: query_table and query_data called on  *)
(* a store that holds device_lookup, sensor and sensor_transformed         *)

\* device_lookup as the read path finds it
QueryLookupRows ==
    <<[id |-> 7, device_uuid |-> "d1"], [id |-> 8, device_uuid |-> "d2"]>>

\* the rows sensor and sensor_transformed are filled from, in stored order
SensorRows ==
    <<[device_id |-> "d1", timestamp |-> 3, v |-> 1],
      [device_id |-> "d2", timestamp |-> 1, v |-> 2],
      [device_id |-> "d9", timestamp |-> 2, v |-> 1],
      [device_id |-> "d1", timestamp |-> 2, v |-> 2]>>

TransformedRows ==
    <<[device_uid |-> 7, timestamp |-> 2, v |-> 1],
      [device_uid |-> 8, timestamp |-> 0, v |-> 2],
      [device_uid |-> 7, timestamp |-> 3, v |-> 1],
      [device_uid |-> 8, timestamp |-> 1, v |-> 1]>>

FirstRows(rows, n) == SubSeq(rows, 1, IF n < Len(rows) THEN n ELSE Len(rows))

StoreOf(sensor, transformed) ==
    [device_lookup |-> QueryLookupRows, sensor |-> sensor,
     sensor_transformed |-> transformed]

\* the stores with at most MaxRows rows in each of the two tables
SmallStores ==
    {StoreOf(FirstRows(SensorRows, n), FirstRows(TransformedRows, m)) :
        n \in 0..MaxRows, m \in 0..MaxRows}

\* a store whose sensor table holds one row more than query_table's default
\* page, all of device d1
LargeStore ==
    StoreOf([i \in 1..(DEFAULT_LIMIT + 1) |->
                [device_id |-> "d1", timestamp |-> i, v |-> 1]],
            FirstRows(TransformedRows, 1))

NoFaults == [device_lookup |-> "ok", sensor |-> "ok", sensor_transformed |-> "ok"]

\* the storage failures studied: none, or one or two tables failing
QueryFaults ==
    {NoFaults,
     [NoFaults EXCEPT !.device_lookup = "error"],
     [NoFaults EXCEPT !.sensor = "error"],
     [NoFaults EXCEPT !.sensor = "noconn"],
     [NoFaults EXCEPT !.sensor_transformed = "error"],
     [NoFaults EXCEPT !.sensor = "error", !.sensor_transformed = "error"]}

Arg(key, value) == [key |-> key, value |-> value]

\* the query parameters a request is made of
ArgPairs ==
    {Arg("device_id", <<"d1", ",", "d2">>),
     Arg("device_id", <<"d1", ",", " ", "d9">>),
     Arg("device_id", <<"d9">>),
     Arg("device_id", <<",">>),
     Arg("start_time", <<"2">>),
     Arg("v", <<"1", ",", "2">>),
     Arg("limit", <<"1">>), Arg("limit", <<"0">>), Arg("limit", <<"abc">>),
     Arg("limit", <<"60000">>),
     Arg("offset", <<"1">>), Arg("offset", <<"-1">>), Arg("offset", <<"x">>)}

\* request.args: at most MaxArgs parameters, each key once, in any order
Requests ==
    {s \in SeqsUpTo(ArgPairs, MaxArgs) :
        \A i, j \in 1..Len(s) : i # j => s[i].key # s[j].key}

\* the arguments of the direct query_table calls
DirectLimits == {None, Some(0), Some(1), Some(2), Some(MAX_LIMIT), Some(MAX_LIMIT + 1),
                 Some(60000)}
DirectOffsets == {None, Some(1), Some(2)}
DirectWheres ==
    {[conditions |-> <<>>, params |-> <<>>],
     [conditions |-> <<Fragment("timestamp", ">=", 1)>>, params |-> <<Str("2")>>]}

\* the write path and the rate limiter study at rest
WriteIdle ==
    /\ schema = TableNames
    /\ db = [t \in AllTables |-> <<>>]
    /\ stats = [total_requests |-> 0, successful_inserts |-> 0,
                failed_inserts |-> 0, unauthorized_attempts |-> 0]
    /\ writes = {}
    /\ calls = 0
    /\ pc = "idle"
    /\ batch = [table |-> "", records |-> <<>>, idx |-> 0,
                success_count |-> 0, error_count |-> 0]
    /\ last = [op |-> "none"]
    /\ resp = [kind |-> "none"]

RateIdle ==
    /\ rl_data = ListBody(<<>>)
    /\ rl_table = "sensor"
    /\ rl_first = NotRun
    /\ rl_second = NotRun

InitQuery ==
    /\ WriteIdle
    /\ RateIdle
    /\ ConcurrentIdle
    /\ q_store \in SmallStores
    /\ q_faults \in QueryFaults
    /\ q_last = [op |-> "none"]

\* GET /data: query_data(table_name, request.args).  The calls of the read
\* path share nothing but the store, which they leave as it is, so a
\* behaviour makes one call.
QueryData ==
    /\ q_last.op = "none"
    /\ \E request_args \in Requests :
       \E r \in {query_data("sensor", request_args, q_store, q_faults)} :
          q_last' = [op |-> "query_data", table_name |-> "sensor",
                     request_args |-> request_args, result |-> r]
    /\ UNCHANGED <<q_store, q_faults>>
    /\ UNCHANGED write_vars
    /\ UNCHANGED rl_vars
    /\ UNCHANGED c_vars

\* query_table called directly
QueryTable ==
    /\ q_last.op = "none"
    /\ \E table_name \in {"sensor", "sensor_transformed"}, w \in DirectWheres,
          limit \in DirectLimits, offset \in DirectOffsets :
       \E r \in {query_table(table_name, w.conditions, w.params, limit, offset,
                             q_store, q_faults)} :
          q_last' = [op |-> "query_table", table_name |-> table_name,
                     conditions |-> w.conditions, params |-> w.params,
                     limit |-> limit, offset |-> offset, result |-> r]
    /\ UNCHANGED <<q_store, q_faults>>
    /\ UNCHANGED write_vars
    /\ UNCHANGED rl_vars
    /\ UNCHANGED c_vars

NextQuery == QueryData \/ QueryTable

SpecQuery == InitQuery /\ [][NextQuery]_vars

\* the same calls on the store that outgrows query_table's default page
InitQueryLarge ==
    /\ WriteIdle
    /\ RateIdle
    /\ ConcurrentIdle
    /\ q_store = LargeStore
    /\ q_faults = NoFaults
    /\ q_last = [op |-> "none"]

SpecQueryLarge == InitQueryLarge /\ [][NextQuery]_vars

---------------------------------------------------------------------------
(* Claims about query_table and query_data *)

QueryDataCall == q_last.op = "query_data"
QueryTableCall == q_last.op = "query_table"

\* the query_table calls the last query_data call made on table t
QueriesOn(t) == SelectSeq(q_last.result.queries, LAMBDA q : q.table = t)

\* the request carries a device_id filter, and the ids it names
HasDeviceFilter ==
    LET p == ArgsGet(q_last.request_args, "device_id")
    IN p # None /\ p[1] # <<>>

RequestedIds ==
    LET p == ArgsGet(q_last.request_args, "device_id")
    IN IF p = None THEN <<>> ELSE StrippedPieces(p[1])

\* device_lookup can be read and holds the device
Resolves(device_id) ==
    /\ q_faults.device_lookup = "ok"
    /\ \E i \in 1..Len(q_store.device_lookup) :
          q_store.device_lookup[i].device_uuid = device_id

UidOf(device_id) ==
    LET i == CHOOSE i \in 1..Len(q_store.device_lookup) :
                /\ q_store.device_lookup[i].device_uuid = device_id
                /\ \A j \in 1..(i - 1) : q_store.device_lookup[j].device_uuid # device_id
    IN q_store.device_lookup[i].id

\* the uids of the requested ids that resolve, in the order requested
ExpectedUids ==
    LET resolved == SelectSeq(RequestedIds, Resolves)
    IN [i \in 1..Len(resolved) |-> UidOf(resolved[i])]

\* the value of a paging parameter of the request: None when absent,
\* otherwise what int() makes of it
PagingArg(key) ==
    LET p == ArgsGet(q_last.request_args, key)
    IN IF p = None THEN None ELSE Some(int(p[1]))

HasKey(key) == ArgsGet(q_last.request_args, key) # None

\* C11: every successful result of query_data and of query_table has
\* has_more = (offset + count < total_count), count = len(data) and
\* count <= limit.
C11_PaginationConsistency ==
    (q_last.op \in {"query_data", "query_table"} /\ q_last.result.success) =>
        LET b == q_last.result.body
        IN /\ b.has_more = (b.offset + b.count < b.total_count)
           /\ b.count = Len(b.data)
           /\ b.count <= b.limit

\* a page in the middle of a result merged from both tables
C11_Witness ==
    /\ QueryDataCall
    /\ q_last.result.success
    /\ q_last.result.body.has_more
    /\ q_last.result.body.offset > 0
    /\ q_last.result.body.count = q_last.result.body.limit
    /\ \A q \in {q_last.result.queries[i] : i \in 1..Len(q_last.result.queries)} :
          q.count > 0
    /\ QueriesOn(TransformedName(q_last.table_name)) # <<>>

\* the number of rows of table t matching the conditions query_data sent to it
MatchCount(t) ==
    IF QueriesOn(t) = <<>> THEN 0
    ELSE Len(Matching(q_store[t], QueriesOn(t)[1].conditions, QueriesOn(t)[1].params))

\* C12: when no storage call fails, total_count of a query_data result is the
\* number of rows matching the request in T plus, when T_transformed is
\* queried, the number matching there, whatever limit and offset are.
C12_FullSetMerge ==
    (/\ QueryDataCall
     /\ q_last.result.status = 200
     /\ \A i \in 1..Len(q_last.result.queries) : q_last.result.queries[i].success)
    => q_last.result.body.total_count =
          MatchCount(q_last.table_name) + MatchCount(TransformedName(q_last.table_name))

\* C13: when the rows of a query_data result carry timestamps, they are in
\* non-decreasing order of timestamp, on every page.
C13_MergedSorted ==
    (/\ QueryDataCall
     /\ q_last.result.success
     /\ \A i \in 1..Len(q_last.result.body.data) :
           "timestamp" \in DOMAIN q_last.result.body.data[i])
    => \A i \in 1..(Len(q_last.result.body.data) - 1) :
          q_last.result.body.data[i].timestamp
              <= q_last.result.body.data[i + 1].timestamp

\* the whole merged collection of a request without limit and offset, in
\* which a row of the transformed table comes before a row of the original
C13_Witness ==
    /\ QueryDataCall
    /\ q_last.result.success
    /\ ~HasKey("limit") /\ ~HasKey("offset")
    /\ \E i \in 1..(Len(q_last.result.body.data) - 1) :
          /\ "device_uid" \in DOMAIN q_last.result.body.data[i]
          /\ "device_id" \in DOMAIN q_last.result.body.data[i + 1]
          /\ q_last.result.body.data[i].timestamp
                < q_last.result.body.data[i + 1].timestamp

\* the limit a call asks for, when it is an integer
RequestedLimit ==
    IF QueryTableCall THEN q_last.limit
    ELSE IF PagingArg("limit") = None \/ PagingArg("limit")[1].exc # "none" THEN None
    ELSE Some(PagingArg("limit")[1].value)

\* the call returned before get_connection() was reached
NoStorageAccess ==
    IF QueryTableCall THEN ~q_last.result.storage
    ELSE q_last.result.queries = <<>>

\* C14: a call whose limit exceeds MAX_LIMIT, made on query_table or through
\* query_data, ends with status 400 before any storage access.
C14_CeilingRejected ==
    (/\ q_last.op \in {"query_data", "query_table"}
     /\ RequestedLimit # None
     /\ RequestedLimit[1] > MAX_LIMIT)
    => /\ q_last.result.status = 400
       /\ NoStorageAccess

InvalidLimit ==
    /\ PagingArg("limit") # None
    /\ \/ PagingArg("limit")[1].exc = "ValueError"
       \/ PagingArg("limit")[1].value <= 0

InvalidOffset ==
    /\ PagingArg("offset") # None
    /\ \/ PagingArg("offset")[1].exc = "ValueError"
       \/ PagingArg("offset")[1].value < 0

\* C15: a query_data call whose limit is not an integer or is <= 0, or whose
\* offset is not an integer or is < 0, returns 400 with an error field and
\* queries neither the requested table nor its transformed counterpart.
C15_InvalidPagingRejected ==
    (QueryDataCall /\ (InvalidLimit \/ InvalidOffset)) =>
        /\ q_last.result.status = 400
        /\ "error" \in DOMAIN q_last.result.body
        /\ QueriesOn(q_last.table_name) = <<>>
        /\ QueriesOn(TransformedName(q_last.table_name)) = <<>>

\* C16: in query_data a failed query of the original table fails the call
\* with an error, while a failed query of the transformed table alone leaves
\* a 200 answer holding the rows of the original table.
C16_PrimaryFatalSecondaryTolerated ==
    QueryDataCall =>
        LET primary == QueriesOn(q_last.table_name)
            secondary == QueriesOn(TransformedName(q_last.table_name))
        IN /\ (primary # <<>> /\ ~primary[1].success) =>
                 /\ ~q_last.result.success
                 /\ q_last.result.status # 200
                 /\ "error" \in DOMAIN q_last.result.body
           /\ (primary # <<>> /\ primary[1].success
               /\ secondary # <<>> /\ ~secondary[1].success) =>
                 /\ q_last.result.status = 200
                 /\ q_last.result.body.total_count = primary[1].count

\* the fragments of a query, each with the parameters it owns
RECURSIVE Owned(_, _)
Owned(conditions, params) ==
    IF conditions = <<>> THEN <<>>
    ELSE LET k == CountPlaceholders(conditions[1])
         IN <<[condition |-> conditions[1], own |-> SubSeq(params, 1, k)]>>
            \o Owned(Tail(conditions), SubSeq(params, k + 1, Len(params)))

OnDeviceId(o) == o.condition[1] = "device_id"

\* the device_uid fragment over the uids that resolve, with its parameters
ExpectedUidFragment ==
    [condition |-> Fragment("device_uid",
                            IF Len(ExpectedUids) > 1 THEN "IN" ELSE "=",
                            Len(ExpectedUids)),
     own |-> [i \in 1..Len(ExpectedUids) |-> Num(ExpectedUids[i])]]

\* C17: for a query_data call with a device_id list and other filters in any
\* order, the original query has one device_id fragment owning all requested
\* ids, and the transformed query has every other fragment of the original
\* query with the parameters it owns, in the same order, followed by the
\* device_uid fragment over the resolved uids only.
C17_TransformedConditions ==
    (QueryDataCall /\ RequestedIds # <<>>) =>
        LET primary == QueriesOn(q_last.table_name)
            secondary == QueriesOn(TransformedName(q_last.table_name))
        IN /\ primary # <<>> =>
                 LET o == Owned(primary[1].conditions, primary[1].params)
                     d == SelectSeq(o, OnDeviceId)
                 IN /\ TotalPlaceholders(primary[1].conditions) = Len(primary[1].params)
                    /\ Len(d) = 1
                    /\ d[1].own = [i \in 1..Len(RequestedIds) |-> Str(RequestedIds[i])]
           /\ secondary # <<>> =>
                 /\ primary # <<>>
                 /\ TotalPlaceholders(secondary[1].conditions) = Len(secondary[1].params)
                 /\ Owned(secondary[1].conditions, secondary[1].params)
                       = SelectSeq(Owned(primary[1].conditions, primary[1].params),
                                   LAMBDA o : ~OnDeviceId(o))
                         \o <<ExpectedUidFragment>>

\* the device_id list comes first, one of its ids does not resolve, and two
\* other filters follow, one of them owning two parameters
C17_Witness ==
    /\ QueryDataCall
    /\ Len(q_last.request_args) = 3
    /\ q_last.request_args[1].key = "device_id"
    /\ q_last.request_args[2].key = "v"
    /\ q_last.request_args[3].key = "start_time"
    /\ Len(RequestedIds) = 2
    /\ Len(ExpectedUids) = 1
    /\ QueriesOn(TransformedName(q_last.table_name)) # <<>>
    /\ Len(QueriesOn(TransformedName(q_last.table_name))[1].params) = 4
    /\ QueriesOn(TransformedName(q_last.table_name))[1].success

\* C18: query_data queries T_transformed exactly when the request has a
\* device_id filter and one of its ids resolves; ids that do not resolve are
\* dropped without an error; a request without a device_id filter reads only
\* the original table.
C18_TransformedIffResolved ==
    QueryDataCall =>
        LET secondary == QueriesOn(TransformedName(q_last.table_name))
        IN /\ secondary # <<>> => (HasDeviceFilter /\ ExpectedUids # <<>>)
           /\ (q_last.result.status = 200 /\ HasDeviceFilter /\ ExpectedUids # <<>>)
                 => Len(secondary) = 1
           /\ ~HasDeviceFilter =>
                 \A i \in 1..Len(q_last.result.queries) :
                    q_last.result.queries[i].table = q_last.table_name
           /\ (RequestedIds # <<>> /\ ~HasKey("limit") /\ ~HasKey("offset"))
                 => q_last.result.status = 200

\* one requested id resolves and one does not: the call succeeds and has
\* queried the transformed table
C18_Witness ==
    /\ QueryDataCall
    /\ q_last.result.status = 200
    /\ Len(ExpectedUids) = 1
    /\ Len(RequestedIds) = 2
    /\ QueriesOn(TransformedName(q_last.table_name)) # <<>>
    /\ q_last.result.body.total_count > 0

---------------------------------------------------------------------------
(* Table discovery: table_has_data, get_all_tables, get_tables_for_devices *)

\* line 414: the tables get_tables_for_devices passes over
SkippedTablesShort ==
    {"device_lookup", "aware_device", "aware_log", "mqtt_history",
     "encryption_skip_list"}

SkippedTables ==
    {"device_lookup", "aware_device", "aware_log", "mqtt_history",
     "mqtt_history_transformed", "encryption_skip_list", "device_index"}

\* the names a table of the discovery study may have, in alphabetical
\* order, and the names that may precede the suffix _transformed
DiscoveryOrder ==
    <<"aware_device", "aware_log", "device_index", "device_lookup",
      "encryption_skip_list", "mqtt_history", "mqtt_history_archive",
      "mqtt_history_transformed", "sensor", "sensor_transformed">>

\* The query of get_all_tables has no ORDER BY: the order of its rows is the
\* server's.  The orders studied: alphabetical, the reverse, and one that
\* lists the transformed tables first.
DiscoveryOrders ==
    {DiscoveryOrder,
     [i \in 1..Len(DiscoveryOrder) |-> DiscoveryOrder[Len(DiscoveryOrder) + 1 - i]],
     <<"sensor_transformed", "mqtt_history_transformed", "device_lookup",
       "sensor", "mqtt_history_archive", "mqtt_history", "encryption_skip_list",
       "device_index", "aware_log", "aware_device">>}

DiscoveryStems == {"mqtt_history", "sensor"}

\* table_name.endswith('_transformed')
EndsWithTransformed(table_name) ==
    \E o \in DiscoveryStems : table_name = TransformedName(o)

\* a plausible slip: the suffix kept in the reported name
DisplayNameKeepsSuffix(table_name) == table_name

\* table_name[:-len('_transformed')] when the name has the suffix
DisplayName(table_name) ==
    IF EndsWithTransformed(table_name)
    THEN CHOOSE o \in DiscoveryStems : table_name = TransformedName(o)
    ELSE table_name

\* the columns of the tables of the discovery study
DiscoveryColumns(table_name) ==
    IF table_name = "device_lookup" THEN {"id", "device_uuid"}
    ELSE IF EndsWithTransformed(table_name) THEN {"device_uid", "timestamp", "v"}
    ELSE {"device_id", "timestamp", "v"}

\* the probe is one the server refuses
ProbeRefused(table_name, conditions, params, tables) ==
    \/ table_name \notin DOMAIN tables
    \/ \E i \in 1..Len(conditions) :
          conditions[i][1] \notin DiscoveryColumns(table_name)
    \/ TotalPlaceholders(conditions) # Len(params)

\* table_has_data(table_name, conditions, params): SELECT 1 ... LIMIT 1
table_has_data(table_name, conditions, params, tables, faults) ==
    IF table_name = "" THEN [success |-> FALSE, has_data |-> FALSE, status |-> 400]
    ELSE
    LET fault == IF table_name \in DOMAIN faults THEN faults[table_name] ELSE "ok"
        where == IF conditions # <<>> /\ params # <<>> THEN conditions ELSE <<>>
        bound == IF conditions # <<>> /\ params # <<>> THEN params ELSE <<>>
    IN IF fault = "noconn"
       THEN [success |-> FALSE, has_data |-> FALSE, status |-> 503]
       ELSE IF fault = "error" \/ ProbeRefused(table_name, where, bound, tables)
       THEN [success |-> FALSE, has_data |-> FALSE, status |-> 500]
       ELSE [success |-> TRUE,
             has_data |-> Matching(tables[table_name], where, bound) # <<>>,
             status |-> 200]

\* get_all_tables(): the names INFORMATION_SCHEMA.TABLES lists, in the
\* order listing the server returns them in
get_all_tables(tables, faults, listing) ==
    LET fault == IF "INFORMATION_SCHEMA" \in DOMAIN faults
                 THEN faults["INFORMATION_SCHEMA"] ELSE "ok"
    IN IF fault = "noconn" THEN [success |-> FALSE, tables |-> <<>>, status |-> 503]
       ELSE IF fault = "error" THEN [success |-> FALSE, tables |-> <<>>, status |-> 500]
       ELSE [success |-> TRUE,
             tables |-> SelectSeq(listing, LAMBDA t : t \in DOMAIN tables),
             status |-> 200]

\* device_uid_map[device_id] = device_uid, the dict kept as its items in
\* insertion order
MapPut(items, key, value) ==
    IF \E i \in 1..Len(items) : items[i].key = key
    THEN [i \in 1..Len(items) |->
             IF items[i].key = key THEN [key |-> key, value |-> value] ELSE items[i]]
    ELSE Append(items, [key |-> key, value |-> value])

\* the dict as a function from its keys
MapOf(items) ==
    [k \in {items[i].key : i \in 1..Len(items)} |->
        items[CHOOSE i \in 1..Len(items) : items[i].key = k].value]

\* lines 390-395: resolve every requested id; acc is [items, queries]
RECURSIVE ResolveLoop(_, _, _, _, _)
ResolveLoop(requested_device_ids, i, acc, tables, faults) ==
    IF i > Len(requested_device_ids) THEN acc
    ELSE
    LET conditions == <<Fragment("device_uuid", "=", 1)>>
        params == <<Str(requested_device_ids[i])>>
        r == query_table("device_lookup", conditions, params, None, None,
                         tables, faults)
    IN ResolveLoop(requested_device_ids, i + 1,
                   [items |-> IF Found(r)
                              THEN MapPut(acc.items, requested_device_ids[i],
                                          r.body.data[1].id)
                              ELSE acc.items,
                    queries |-> Append(acc.queries,
                                       Issued("device_lookup", conditions, params, r))],
                   tables, faults)

\* the device ids of the study in the order sorted() puts them
IdOrder == <<"d1", "d2", "d9">>

\* sorted(ids)
RECURSIVE SortedFrom(_, _)
SortedFrom(ids, k) ==
    IF k > Len(IdOrder) THEN <<>>
    ELSE SelectSeq(ids, LAMBDA d : d = IdOrder[k]) \o SortedFrom(ids, k + 1)

sorted(ids) == SortedFrom(ids, 1)

\* ','.join(sorted(matched_by_list))
JoinMatchedBy(matched_by_list) ==
    IF matched_by_list = {"device_id", "device_uid"} THEN "device_id,device_uid"
    ELSE IF matched_by_list = {"device_id"} THEN "device_id"
    ELSE IF matched_by_list = {"device_uid"} THEN "device_uid"
    ELSE ""

\* lines 417-450: the probe of one table: the call made, if any, and the
\* entry added to tables_with_data, if any
ProbeTable(table_name, requested_device_ids, items, tables, faults) ==
    LET device_uids == [i \in 1..Len(items) |-> items[i].value]
        by_id == ~EndsWithTransformed(table_name)
        conditions ==
            IF by_id THEN <<Fragment("device_id", "IN", Len(requested_device_ids))>>
            ELSE <<Fragment("device_uid", "IN", Len(device_uids))>>
        params ==
            IF by_id
            THEN [i \in 1..Len(requested_device_ids) |-> Str(requested_device_ids[i])]
            ELSE [i \in 1..Len(device_uids) |-> Num(device_uids[i])]
        probed == by_id \/ device_uids # <<>>
        r == table_has_data(table_name, conditions, params, tables, faults)
        matched == probed /\ r.success /\ r.has_data
        matched_by_list == IF ~matched THEN {}
                           ELSE IF by_id THEN {"device_id"} ELSE {"device_uid"}
        matched_device_ids_for_table ==
            IF ~matched THEN <<>>
            ELSE IF by_id THEN requested_device_ids
            ELSE [i \in 1..Len(items) |-> items[i].key]
    IN [probes |-> IF probed
                   THEN <<[table |-> table_name, conditions |-> conditions,
                           params |-> params, success |-> r.success,
                           has_data |-> r.has_data]>>
                   ELSE <<>>,
        entries |-> IF matched_device_ids_for_table # <<>>
                    THEN <<[table |-> DisplayName(table_name),
                            matched_by |-> JoinMatchedBy(matched_by_list),
                            device_ids_matched |-> sorted(matched_device_ids_for_table)]>>
                    ELSE <<>>]

\* lines 413-450: the loop over all_tables; acc is [probes, tables_with_data]
RECURSIVE DiscoverLoop(_, _, _, _, _, _, _)
DiscoverLoop(all_tables, i, requested_device_ids, items, acc, tables, faults) ==
    IF i > Len(all_tables) THEN acc
    ELSE IF all_tables[i] \in SkippedTables
    THEN DiscoverLoop(all_tables, i + 1, requested_device_ids, items, acc,
                      tables, faults)
    ELSE LET p == ProbeTable(all_tables[i], requested_device_ids, items,
                             tables, faults)
         IN DiscoverLoop(all_tables, i + 1, requested_device_ids, items,
                         [probes |-> acc.probes \o p.probes,
                          tables_with_data |-> acc.tables_with_data \o p.entries],
                         tables, faults)

\* a plausible slip: the empty map is not told apart
NoneResolvedNever(items) == FALSE

\* if not device_uid_map
NoneResolved(items) == items = <<>>

\* get_tables_for_devices(requested_device_ids); queries, enumerated and
\* probes are the trace of its storage calls, listing the order the server
\* lists its tables in
get_tables_for_devices(requested_device_ids, tables, faults, listing) ==
    IF requested_device_ids = <<>>
    THEN [success |-> FALSE, body |-> [error |-> "invalid device_id format"],
          status |-> 400, queries |-> <<>>, enumerated |-> FALSE, probes |-> <<>>]
    ELSE
    LET resolved == ResolveLoop(requested_device_ids, 1,
                                [items |-> <<>>, queries |-> <<>>], tables, faults)
        listed == get_all_tables(tables, faults, listing)
        found == DiscoverLoop(listed.tables, 1, requested_device_ids, resolved.items,
                              [probes |-> <<>>, tables_with_data |-> <<>>],
                              tables, faults)
    IN IF NoneResolved(resolved.items)
       THEN [success |-> FALSE,
             body |-> [error |-> "device_ids not found",
                       device_ids |-> requested_device_ids,
                       found_count |-> 0],
             status |-> 404, queries |-> resolved.queries,
             enumerated |-> FALSE, probes |-> <<>>]
       ELSE IF ~listed.success
       THEN [success |-> FALSE, body |-> [error |-> "failed to retrieve table list"],
             status |-> listed.status, queries |-> resolved.queries,
             enumerated |-> TRUE, probes |-> <<>>]
       ELSE [success |-> TRUE,
             body |-> [device_ids |-> requested_device_ids,
                       device_uid_map |-> MapOf(resolved.items),
                       tables_with_data |-> found.tables_with_data,
                       count |-> Len(found.tables_with_data)],
             status |-> 200, queries |-> resolved.queries,
             enumerated |-> TRUE, probes |-> found.probes]

---------------------------------------------------------------------------
(* Table discovery as a state machine *)

\* a row of device d1 in a table keyed by device_id, and one in a table
\* keyed by device_uid
SystemRow == [device_id |-> "d1", timestamp |-> 0, v |-> 1]
SystemRowByUid == [device_uid |-> 7, timestamp |-> 0, v |-> 1]

\* every table get_tables_for_devices passes over exists and holds a row of
\* device d1
SystemTables ==
    [device_lookup |-> QueryLookupRows,
     aware_device |-> <<SystemRow>>,
     aware_log |-> <<SystemRow>>,
     mqtt_history |-> <<SystemRow>>,
     mqtt_history_transformed |-> <<SystemRowByUid>>,
     encryption_skip_list |-> <<SystemRow>>,
     device_index |-> <<SystemRow>>]

\* the stores of the discovery study: the system tables, sensor and
\* sensor_transformed with at most MaxRows rows each and, in some, a table
\* mqtt_history_archive holding a row of d1
DiscoveryStores ==
    {SystemTables @@ archive
        @@ [sensor |-> FirstRows(SensorRows, n),
            sensor_transformed |-> FirstRows(TransformedRows, m)] :
        n \in 0..MaxRows, m \in 0..MaxRows,
        archive \in {<<>>, [mqtt_history_archive |-> <<SystemRow>>]}}

DiscoveryFaults ==
    {NoFaults,
     [NoFaults EXCEPT !.device_lookup = "error"],
     [NoFaults EXCEPT !.sensor = "error"],
     [NoFaults EXCEPT !.sensor_transformed = "noconn"],
     NoFaults @@ [INFORMATION_SCHEMA |-> "error"],
     NoFaults @@ [INFORMATION_SCHEMA |-> "noconn"]}

\* the id lists of GET /tables-for-device
DiscoveryRequests == {<<>>, <<"d1">>, <<"d9">>, <<"d1", "d2">>, <<"d9", "d1">>}

InitDiscover ==
    /\ WriteIdle
    /\ RateIdle
    /\ ConcurrentIdle
    /\ q_store \in DiscoveryStores
    /\ q_faults \in DiscoveryFaults
    /\ q_last = [op |-> "none"]

\* GET /tables-for-device: get_tables_for_devices(requested_device_ids)
GetTablesForDevices ==
    /\ q_last.op = "none"
    /\ \E requested_device_ids \in DiscoveryRequests, listing \in DiscoveryOrders :
       \E r \in {get_tables_for_devices(requested_device_ids, q_store, q_faults,
                                        listing)} :
          q_last' = [op |-> "get_tables_for_devices",
                     requested_device_ids |-> requested_device_ids,
                     listing |-> listing, result |-> r]
    /\ UNCHANGED <<q_store, q_faults>>
    /\ UNCHANGED write_vars
    /\ UNCHANGED rl_vars
    /\ UNCHANGED c_vars

NextDiscover == GetTablesForDevices

SpecDiscover == InitDiscover /\ [][NextDiscover]_vars

---------------------------------------------------------------------------
(* Claims about table discovery *)

DiscoverCall == q_last.op = "get_tables_for_devices"

\* the entries of tables_with_data of a successful call
Reported ==
    IF q_last.result.success THEN q_last.result.body.tables_with_data ELSE <<>>

\* C19: in the result of get_tables_for_devices a table name appears at most
\* once in tables_with_data, also when both the table and its transformed
\* counterpart hold data of the requested devices.
C19_TableReportedOnce ==
    DiscoverCall =>
        \A i, j \in 1..Len(Reported) :
            Reported[i].table = Reported[j].table => i = j

\* the text after the prefix mqtt_history in the names of the study
HistorySuffixes == {"", "_transformed", "_archive"}

\* table_name starts with mqtt_history
StartsWithHistory(table_name) ==
    \E rest \in HistorySuffixes : table_name = "mqtt_history" \o rest

\* the denylist as the claim words it
DenylistedByPrefix(table_name) ==
    \/ table_name \in {"device_lookup", "aware_device", "aware_log",
                       "encryption_skip_list", "device_index"}
    \/ StartsWithHistory(table_name)

\* the denylist by name
DenylistedByName(table_name) ==
    table_name \in {"device_lookup", "aware_device", "aware_log", "mqtt_history",
                    "mqtt_history_transformed", "encryption_skip_list",
                    "device_index"}

\* C20 as stated: get_tables_for_devices probes and reports no table that is
\* device_lookup, aware_device, aware_log, encryption_skip_list or
\* device_index or whose name starts with mqtt_history.
C20_DenylistByPrefix ==
    DiscoverCall =>
        /\ \A i \in 1..Len(q_last.result.probes) :
              ~DenylistedByPrefix(q_last.result.probes[i].table)
        /\ \A i \in 1..Len(Reported) : ~DenylistedByPrefix(Reported[i].table)

\* C20, amended: get_tables_for_devices never probes and never reports a
\* table of the denylist of internal tables, the denylist being the seven
\* tables named exactly device_lookup, aware_device, aware_log, mqtt_history,
\* mqtt_history_transformed, encryption_skip_list and device_index: no probe
\* names one of the seven, and every entry reported comes from a probe that
\* found data in a table that is not one of the seven.
C20_DenylistByName ==
    DiscoverCall =>
        /\ \A i \in 1..Len(q_last.result.probes) :
              ~DenylistedByName(q_last.result.probes[i].table)
        /\ \A i \in 1..Len(Reported) :
              \E k \in 1..Len(q_last.result.probes) :
                 /\ q_last.result.probes[k].has_data
                 /\ ~DenylistedByName(q_last.result.probes[k].table)
                 /\ DisplayName(q_last.result.probes[k].table) = Reported[i].table

\* a call on a store where the seven tables each hold a row of the requested
\* device: it made probes, none of them of the seven, and reported sensor
C20_Witness ==
    /\ DiscoverCall
    /\ q_last.result.status = 200
    /\ \A t \in {"device_lookup", "aware_device", "aware_log", "mqtt_history",
                 "mqtt_history_transformed", "encryption_skip_list",
                 "device_index"} : t \in DOMAIN q_store /\ q_store[t] # <<>>
    /\ "d1" \in {q_last.requested_device_ids[i] :
                    i \in 1..Len(q_last.requested_device_ids)}
    /\ \E i \in 1..Len(Reported) : Reported[i].table = "sensor"
    /\ Len(q_last.result.probes) >= 2


---------------------------------------------------------------------------
(* Further claims about table discovery, checked under SpecDiscover *)

\* the requested ids as a set, and those of them device_lookup resolves
DiscoverIds ==
    {q_last.requested_device_ids[i] : i \in 1..Len(q_last.requested_device_ids)}

DiscoverResolved == {d \in DiscoverIds : Resolves(d)}

\* the table list can be read
ListingWorks ==
    \/ "INFORMATION_SCHEMA" \notin DOMAIN q_faults
    \/ q_faults["INFORMATION_SCHEMA"] = "ok"

\* C21: get_tables_for_devices fails with 400 on an empty id list and with
\* 404, error 'device_ids not found' and found_count 0, when no requested id
\* resolves in device_lookup, both without listing or probing any table; when
\* some id resolves the unresolved ids raise no error and device_uid_map holds
\* exactly the resolved ids, each with its uid.
C21_ResolutionOutcome ==
    DiscoverCall =>
        LET r == q_last.result
        IN /\ DiscoverIds = {} =>
                 (r.status = 400 /\ ~r.enumerated /\ r.probes = <<>>)
           /\ (DiscoverIds # {} /\ DiscoverResolved = {}) =>
                 /\ r.status = 404
                 /\ r.body.error = "device_ids not found"
                 /\ r.body.found_count = 0
                 /\ ~r.enumerated
                 /\ r.probes = <<>>
           /\ DiscoverResolved # {} =>
                 /\ r.status \notin {400, 404}
                 /\ r.success = ListingWorks
                 /\ r.success =>
                       /\ DOMAIN r.body.device_uid_map = DiscoverResolved
                       /\ \A d \in DiscoverResolved :
                             r.body.device_uid_map[d] = UidOf(d)

\* a call naming an unknown device and a known one resolved the known one
C21_Witness ==
    /\ DiscoverCall
    /\ q_last.result.success
    /\ DiscoverResolved # {}
    /\ DiscoverResolved # DiscoverIds
    /\ DOMAIN q_last.result.body.device_uid_map = DiscoverResolved

\* the probes of the call that found data
MatchedProbes == SelectSeq(q_last.result.probes, LAMBDA p : p.has_data)

\* the requested ids that resolve, in the order requested, and their uids
ResolvedInOrder == SelectSeq(q_last.requested_device_ids, Resolves)

\* the sequences s and t hold the same elements the same number of times
SameElements(s, t) ==
    /\ Len(s) = Len(t)
    /\ \A x \in {s[i] : i \in 1..Len(s)} \cup {t[i] : i \in 1..Len(t)} :
          Cardinality({i \in 1..Len(s) : s[i] = x})
              = Cardinality({i \in 1..Len(t) : t[i] = x})

\* C25: every entry of tables_with_data records its provenance: the entries
\* are the probes that found data, in order; a table without the suffix
\* _transformed is probed with device_id IN (all requested ids) and reported
\* under its name with matched_by 'device_id' and all requested ids; a table
\* with the suffix is probed with device_uid IN (the resolved uids) and
\* reported under the name without the suffix with matched_by 'device_uid'
\* and the resolved ids only; count is the number of entries.
C25_EntryProvenance ==
    (DiscoverCall /\ q_last.result.success) =>
        LET b == q_last.result.body
            ids == q_last.requested_device_ids
            uids == [i \in 1..Len(ResolvedInOrder) |-> UidOf(ResolvedInOrder[i])]
        IN /\ b.count = Len(b.tables_with_data)
           /\ Len(b.tables_with_data) = Len(MatchedProbes)
           /\ \A i \in 1..Len(MatchedProbes) :
                 LET p == MatchedProbes[i]
                     e == b.tables_with_data[i]
                 IN IF \E o \in DiscoveryStems : p.table = o \o "_transformed"
                    THEN /\ p.conditions = <<Fragment("device_uid", "IN", Len(uids))>>
                         /\ p.params = [k \in 1..Len(uids) |-> Num(uids[k])]
                         /\ e.table \o "_transformed" = p.table
                         /\ e.matched_by = "device_uid"
                         /\ SameElements(e.device_ids_matched, ResolvedInOrder)
                    ELSE /\ p.conditions = <<Fragment("device_id", "IN", Len(ids))>>
                         /\ p.params = [k \in 1..Len(ids) |-> Str(ids[k])]
                         /\ e.table = p.table
                         /\ e.matched_by = "device_id"
                         /\ SameElements(e.device_ids_matched, ids)

\* a call naming an unknown and a known device reported one table by
\* device_id and one by device_uid
C25_Witness ==
    /\ DiscoverCall
    /\ q_last.result.success
    /\ DiscoverResolved # DiscoverIds
    /\ \E i, j \in 1..Len(Reported) :
          /\ Reported[i].matched_by = "device_id"
          /\ Len(Reported[i].device_ids_matched) = 2
          /\ Reported[j].matched_by = "device_uid"
          /\ Len(Reported[j].device_ids_matched) = 1

---------------------------------------------------------------------------
(* Further claims about the write path, checked under Spec *)

\* C23: when insert_record obtains no connection it returns
\* (False, 'Database connection failed'), executes no probe, lookup or write
\* and leaves every counter of stats as it was.
C23_NoConnectionNoEffect ==
    (last.op = "insert_record" /\ ~last.conn) =>
        /\ ~last.ok
        /\ last.msg = "Database connection failed"
        /\ last.stmts = <<>>
        /\ stats = last.stats_before

\* the second call of a behaviour got no connection for a record with a
\* device_id, after a first call that moved a counter
C23_Witness ==
    /\ last.op = "insert_record"
    /\ ~last.conn
    /\ "device_id" \in DOMAIN last.record
    /\ calls = 2
    /\ \E c \in DOMAIN stats \ {"total_requests", "unauthorized_attempts"} :
          stats[c] > 0

\* the rows stored in the original tables and in the transformed tables
RECURSIVE RowsIn(_)
RowsIn(tables) ==
    IF tables = {} THEN 0
    ELSE LET t == CHOOSE t \in tables : TRUE
         IN Len(db[t]) + RowsIn(tables \ {t})

\* C27: in a sequence of insert_record calls from zeroed counters and empty
\* tables, successful_inserts is the number of rows in the original tables,
\* successful_transforms the number of rows in the transformed tables, every
\* call that fails with a connection adds one to failed_inserts and every
\* call that returns success adds one to successful_inserts +
\* successful_transforms.
C27_CountersMatchCalls ==
    [][calls' = calls + 1 =>
         /\ DictGetDefault(stats', "successful_inserts", 0) = RowsIn(TableNames)'
         /\ DictGetDefault(stats', "successful_transforms", 0)
               = RowsIn({TransformedName(t) : t \in TableNames})'
         /\ (last'.conn /\ ~last'.ok) =>
               stats'["failed_inserts"] = stats["failed_inserts"] + 1
         /\ last'.ok =>
               DictGetDefault(stats', "successful_inserts", 0)
                 + DictGetDefault(stats', "successful_transforms", 0)
               = DictGetDefault(stats, "successful_inserts", 0)
                 + DictGetDefault(stats, "successful_transforms", 0) + 1]_vars

---------------------------------------------------------------------------
(* Further claims about the rate limiter, checked under SpecRate *)

\* The filter of the specification: scanning in input order, a record is
\* kept iff last_kept_timestamp is unset, or the record has no timestamp, or
\* its timestamp is at least the interval after last_kept_timestamp; a kept
\* record's timestamp (unset when it has none) becomes last_kept_timestamp.
RECURSIVE GreedyReference(_, _, _)
GreedyReference(S, I, last_kept_timestamp) ==
    IF S = <<>> THEN <<>>
    ELSE LET record == Head(S)
             kept == \/ last_kept_timestamp = None
                     \/ ~HasTimestamp(record)
                     \/ record.timestamp - last_kept_timestamp[1] >= I
         IN IF kept
            THEN <<record>> \o GreedyReference(Tail(S), I, DictGet(record, "timestamp"))
            ELSE GreedyReference(Tail(S), I, last_kept_timestamp)

\* C24: apply_rate_limit on a list returns what the greedy reference filter
\* keeps: in input order, a record is kept iff none was kept before or its
\* timestamp is at least the table's interval (200000 by default) after the
\* last kept one, so that a gap equal to the interval is kept and a
\* duplicate timestamp dropped; the kept records are unmodified.
C24_GreedyReference ==
    (rl_data.kind = "list" /\ rl_first.exc # "not run") =>
        /\ rl_first.exc = "none"
        /\ rl_first.value =
              ListBody(GreedyReference(rl_data.items, RateLimitFor(rl_table), None))

---------------------------------------------------------------------------
(* Further claims about query_data, checked under SpecQuery *)

\* C30: query_data answers 500 only when a storage call fails: when every
\* query_table call it makes succeeds the status is 200 or 400, also for a
\* device_id parameter holding no id, such as ','.
C30_ServerErrorOnlyOnStorageFailure ==
    (/\ QueryDataCall
     /\ \A i \in 1..Len(q_last.result.queries) : q_last.result.queries[i].success)
    => q_last.result.status \in {200, 400}

---------------------------------------------------------------------------
(* Walking the pages of query_data: src/test_integration.py, the client of  *)
(* GET /data                                                                *)

\* most pages fetched in one walk
MaxPages == 4

\* str(n) for the integers the model has literals for
Decimal(n) == <<CHOOSE t \in DOMAIN IntLiterals : IntLiterals[t] = n>>

\* The pages at offsets offset, offset + L, ... fetched while has_more is
\* true and the page budget lasts.  walk is [pages, first, ended]: the data
\* of each page, the first response, and whether a page said has_more false.
RECURSIVE WalkPages(_, _, _, _, _, _, _)
WalkPages(table_name, filters, L, offset, tables, faults, walk) ==
    LET request_args == filters \o <<Arg("limit", Decimal(L)),
                                     Arg("offset", Decimal(offset))>>
    IN Only({IF ~r.success
             THEN [walk EXCEPT !.first = IF walk.pages = <<>> THEN r ELSE @]
             ELSE LET next == [pages |-> Append(walk.pages, r.body.data),
                               first |-> IF walk.pages = <<>> THEN r ELSE walk.first,
                               ended |-> ~r.body.has_more]
                  IN IF r.body.has_more /\ Len(next.pages) < MaxPages
                     THEN WalkPages(table_name, filters, L, offset + L,
                                    tables, faults, next)
                     ELSE next :
             r \in {query_data(table_name, request_args, tables, faults)}})

\* the filters of a walk: no filter, or one parameter that is neither limit
\* nor offset and, if a device_id, names a device
PageFilters ==
    {s \in Requests :
        /\ Len(s) <= 1
        /\ \A i \in 1..Len(s) : /\ s[i].key \notin {"limit", "offset"}
                                /\ s[i].value # <<",">>}

\* the page sizes walked
PageLimits == {1, 2, MAX_LIMIT}

\* the stores walked: any number of the rows of the study in each of the two
\* tables, some sharing a timestamp, and the store of 10,001 rows
PageStores ==
    {StoreOf(FirstRows(SensorRows, n), FirstRows(TransformedRows, m)) :
        n \in 0..Len(SensorRows), m \in 0..Len(TransformedRows)}
    \cup {LargeStore}

InitPages ==
    /\ WriteIdle
    /\ RateIdle
    /\ ConcurrentIdle
    /\ q_store \in PageStores
    /\ q_faults = NoFaults
    /\ q_last = [op |-> "none"]

\* a client fetches query_data page after page with a fixed limit
QueryPages ==
    /\ q_last.op = "none"
    /\ \E filters \in PageFilters, L \in PageLimits :
       \E walk \in {WalkPages("sensor", filters, L, 0, q_store, q_faults,
                              [pages |-> <<>>, first |-> <<>>, ended |-> FALSE])} :
          q_last' = [op |-> "pages", table_name |-> "sensor",
                     request_args |-> filters, limit |-> L, walk |-> walk]
    /\ UNCHANGED <<q_store, q_faults>>
    /\ UNCHANGED write_vars
    /\ UNCHANGED rl_vars
    /\ UNCHANGED c_vars

NextPages == QueryPages

SpecPages == InitPages /\ [][NextPages]_vars

---------------------------------------------------------------------------
(* Claims about the page walk, checked under SpecPages *)

\* the rows of the pages of the walk, one page after the other
RECURSIVE Flatten(_)
Flatten(pages) ==
    IF pages = <<>> THEN <<>> ELSE Head(pages) \o Flatten(Tail(pages))

\* the rows of table t matching the conditions the first page's call sent it
WalkMatching(t) ==
    LET sent == SelectSeq(q_last.walk.first.queries, LAMBDA q : q.table = t)
    IN IF sent = <<>> THEN <<>>
       ELSE Matching(q_store[t], sent[1].conditions, sent[1].params)

\* the rows of the sequence s as a set
RowSet(s) == {s[i] : i \in 1..Len(s)}

\* C29: pagination completeness: on a fixed store and with fixed filters,
\* the pages of query_data fetched with a fixed limit L at offsets 0, L, 2L,
\* ... until has_more is false hold every row matching the filters in T and
\* T_transformed exactly once, also when rows share a timestamp and when
\* more rows match than the default limit.
C29_PagesComplete ==
    (q_last.op = "pages" /\ q_last.walk.ended) =>
        LET T == WalkMatching("sensor")
            U == WalkMatching("sensor_transformed")
            fetched == Flatten(q_last.walk.pages)
        IN /\ Len(fetched) = Len(T) + Len(U)
           /\ RowSet(fetched) = RowSet(T) \cup RowSet(U)
           /\ Cardinality(RowSet(fetched)) = Len(fetched)

---------------------------------------------------------------------------
(* Reading back what was written: insert_record, then query_data            *)

\* the records posted in the read-back study: those of WriteRecords that
\* have a value for every column of the table sensor
ReadBackRecords == {record \in WriteRecords : DOMAIN record = QueryColumns.sensor}

\* the storage failures of the read-back study
ReadBackFaults == {{}, {"tinsert"}, {"oinsert"}, {"connect"}}

\* the rows table sensor may hold before the first insert: none, or a full
\* default page of rows of device d1
EarlierRows ==
    {<<>>, [i \in 1..DEFAULT_LIMIT |-> [device_id |-> "d1", timestamp |-> i, v |-> 1]]}

\* the tables as the read path sees them: device_lookup and the tables of
\* the schema with the rows written so far
StoreSeen(sch, tables) ==
    [device_lookup |-> DeviceLookupRows] @@ [t \in sch |-> tables[t]]

InitReadBack ==
    /\ schema \in {TableNames, TableNames \cup {TransformedName("sensor")}}
    /\ \E rows \in EarlierRows :
          db = [t \in AllTables |-> IF t = "sensor" THEN rows ELSE <<>>]
    /\ stats = [total_requests |-> 0, successful_inserts |-> 0,
                failed_inserts |-> 0, unauthorized_attempts |-> 0]
    /\ writes = {}
    /\ calls = 0
    /\ pc = "idle"
    /\ batch = [table |-> "", records |-> <<>>, idx |-> 0,
                success_count |-> 0, error_count |-> 0]
    /\ last = [op |-> "none"]
    /\ resp = [kind |-> "none"]
    /\ RateIdle
    /\ QueryIdle
    /\ ConcurrentIdle

\* POST of a single record to table sensor with the study password: the
\* request is counted, then insert_records with a dict
InsertSensorRecord ==
    /\ pc = "idle"
    /\ calls < MaxCalls
    /\ q_last.op = "none"
    /\ \E record \in ReadBackRecords, faults \in ReadBackFaults :
      \E counted \in {[stats EXCEPT !.total_requests = @ + 1]} :
      \E data \in {apply_rate_limit(DictBody(record), "sensor").value} :
      \E r \in {insert_record(data.rec, "sensor", counted, schema, faults)} :
              /\ stats' = r.stats
              /\ db' = ApplyStmts(db, r.stmts)
              /\ writes' = writes \cup WriteLog(r, data.rec)
              /\ last' = LastCall(r, data.rec, "sensor", counted)
              /\ calls' = calls + 1
              /\ resp' = Returned(r.ok,
                                  IF r.ok THEN [status |-> "ok"] ELSE [error |-> r.msg],
                                  data, "sensor", <<data.rec>>, 1)
    /\ UNCHANGED <<schema, pc, batch>>
    /\ UNCHANGED rl_vars
    /\ UNCHANGED q_vars
    /\ UNCHANGED c_vars

\* GET /data?table=sensor&device_id=d on the tables as they are now
ReadBack ==
    /\ pc = "idle"
    /\ q_last.op = "none"
    /\ \E d \in {record.device_id : record \in ReadBackRecords} :
       \E tables \in {StoreSeen(schema, db)} :
       \E r \in {query_data("sensor", <<Arg("device_id", <<d>>)>>, tables, NoFaults)} :
          /\ q_store' = tables
          /\ q_faults' = NoFaults
          /\ q_last' = [op |-> "query_data", table_name |-> "sensor",
                        request_args |-> <<Arg("device_id", <<d>>)>>, result |-> r]
    /\ UNCHANGED write_vars
    /\ UNCHANGED rl_vars
    /\ UNCHANGED c_vars

NextReadBack == InsertSensorRecord \/ ReadBack

SpecReadBack == InitReadBack /\ [][NextReadBack]_vars

---------------------------------------------------------------------------
(* Claims about reading back, checked under SpecReadBack *)

\* the entries of the history of writes that stem from records of device d
WritesOf(d) == {w \in writes : w.src.device_id = d}

\* the number of times row x stands in the sequence s
Occurrences(x, s) == Cardinality({i \in 1..Len(s) : s[i] = x})

\* the rows stored for device d: in the original table under its device_id,
\* in the transformed table under the uid device_lookup gives it
StoredFor(d, t) ==
    IF t = "sensor"
    THEN SelectSeq(db[t], LAMBDA row : row.device_id = d)
    ELSE SelectSeq(db[t], LAMBDA row :
            \E i \in 1..Len(DeviceLookupRows) :
               /\ DeviceLookupRows[i].device_uuid = d
               /\ DeviceLookupRows[i].id = row.device_uid)

\* C26: read-after-write: with device_lookup unchanged, every record of
\* device d that insert_record reported as inserted into T is counted in
\* total_count and returned by a later query_data(T, device_id=d), whether T
\* or T_transformed received it, and returned as often as it was stored.
C26_ReadAfterWrite ==
    QueryDataCall =>
        LET d == Text(q_last.request_args[1].value)
            r == q_last.result
        IN /\ r.success
           /\ r.body.total_count = Len(StoredFor(d, "sensor"))
                                      + Len(StoredFor(d, TransformedName("sensor")))
           /\ \A w \in WritesOf(d) :
                 Occurrences(w.row, r.body.data) = Occurrences(w.row, db[w.table])

---------------------------------------------------------------------------
(* Concurrent insert handlers on one shared stats dict                      *)
(*                                                                          *)
(* stats['k'] += 1 and stats['k'] = stats.get('k', 0) + 1 read the counter  *)
(* and write it back in two steps, between which another handler may run.   *)
(* A handler's request is the update of total_requests the route makes,     *)
(* then the storage statements of insert_record, in blocks, each block      *)
(* followed by the counter update the code makes after it.                  *)

\* the handlers running at the same time
Handlers == {"h1", "h2"}

\* the counters an accepted POST updates: the route's, insert_record's and
\* transform_and_write's
Counters == {"total_requests", "successful_inserts", "failed_inserts",
             "successful_transforms", "transformation_failures"}

\* the storage failures of the concurrency study
RaceFaults == {{}, {"lookup"}, {"tinsert"}, {"oinsert"}, {"connect"}}

ZeroStats == [total_requests |-> 0, successful_inserts |-> 0,
              failed_inserts |-> 0, unauthorized_attempts |-> 0]

\* the counter a call moved between the stats dicts before and after
CountersMoved(before, after) ==
    LET moved == {c \in Counters :
                     DictGetDefault(after, c, 0) # DictGetDefault(before, c, 0)}
    IN IF moved = {} THEN <<>> ELSE <<[kind |-> "count", counter |-> CHOOSE c \in moved : TRUE]>>

\* the statements of a block, if any
Executes(stmts) == IF stmts = <<>> THEN <<>> ELSE <<[kind |-> "execute", stmts |-> stmts]>>

\* The steps of an accepted POST of one record in the order of the code:
\* the route's update of total_requests, then insert_record(data,
\* table_name, stats): the statements of transform_and_write, its counter
\* update, the INSERT into the original table, its counter update.
HandlerSteps(data, table_name, sch, faults) ==
    LET t == transform_and_write(data, table_name, ZeroStats, sch, faults)
        r == insert_record(data, table_name, ZeroStats, sch, faults)
    IN <<[kind |-> "count", counter |-> "total_requests"]>> \o
       (IF ~r.conn THEN <<>>
        ELSE Executes(t.stmts) \o CountersMoved(ZeroStats, t.stats)
             \o Executes(SubSeq(r.stmts, Len(t.stmts) + 1, Len(r.stmts)))
             \o CountersMoved(t.stats, r.stats))

\* a plausible slip: the counter re-read and the update applied on top
StoreCounterTwice(st, counter, loaded) ==
    DictSet(st, counter, DictGetDefault(st, counter, 0) + 2)

\* the write half of stats[counter] = <value read> + 1
StoreCounter(st, counter, loaded) == DictSet(st, counter, loaded + 1)

InitRace ==
    /\ schema \in {TableNames, TableNames \cup {TransformedName("sensor")}}
    /\ db = [t \in AllTables |-> <<>>]
    /\ stats = ZeroStats
    /\ writes = {}
    /\ calls = 0
    /\ pc = "idle"
    /\ batch = [table |-> "", records |-> <<>>, idx |-> 0,
                success_count |-> 0, error_count |-> 0]
    /\ last = [op |-> "none"]
    /\ resp = [kind |-> "none"]
    /\ RateIdle
    /\ QueryIdle
    /\ c_run = [h \in Handlers |-> [pc |-> "idle", steps |-> <<>>, idx |-> 1,
                                    loaded |-> None]]
    /\ c_events = [c \in Counters |-> 0]

\* handler h accepts a POST of one record, of those in records, for table
\* sensor: the request is one more for total_requests to count
RaceBegin(h, records) ==
    /\ c_run[h].pc = "idle"
    /\ \E data \in records, faults \in RaceFaults :
       \E steps \in {HandlerSteps(data, "sensor", schema, faults)} :
          c_run' = [c_run EXCEPT ![h] = [pc |-> "run", steps |-> steps, idx |-> 1,
                                         loaded |-> None]]
    /\ c_events' = [c_events EXCEPT !["total_requests"] = @ + 1]
    /\ calls' = calls + 1
    /\ UNCHANGED <<schema, db, stats, writes, pc, batch, last, resp>>
    /\ UNCHANGED rl_vars
    /\ UNCHANGED q_vars

\* the position of handler h after its step idx
Advance(h) ==
    [c_run[h] EXCEPT !.idx = @ + 1, !.loaded = None,
                     !.pc = IF c_run[h].idx = Len(c_run[h].steps) THEN "done" ELSE "run"]

\* handler h executes its next block of statements; the outcome of the block
\* is the event the counter update after it records
RaceExecute(h) ==
    /\ c_run[h].pc = "run"
    /\ c_run[h].steps[c_run[h].idx].kind = "execute"
    /\ db' = ApplyStmts(db, c_run[h].steps[c_run[h].idx].stmts)
    /\ c_events' =
          IF /\ c_run[h].idx < Len(c_run[h].steps)
             /\ c_run[h].steps[c_run[h].idx + 1].kind = "count"
          THEN [c_events EXCEPT ![c_run[h].steps[c_run[h].idx + 1].counter] = @ + 1]
          ELSE c_events
    /\ c_run' = [c_run EXCEPT ![h] = Advance(h)]
    /\ UNCHANGED <<schema, stats, writes, calls, pc, batch, last, resp>>
    /\ UNCHANGED rl_vars
    /\ UNCHANGED q_vars

\* handler h reads the counter it is about to update
RaceLoad(h) ==
    /\ c_run[h].pc = "run"
    /\ c_run[h].steps[c_run[h].idx].kind = "count"
    /\ c_run[h].loaded = None
    /\ c_run' = [c_run EXCEPT ![h].loaded =
                    Some(DictGetDefault(stats, c_run[h].steps[c_run[h].idx].counter, 0))]
    /\ UNCHANGED write_vars
    /\ UNCHANGED c_events
    /\ UNCHANGED rl_vars
    /\ UNCHANGED q_vars

\* handler h writes the counter back, one above the value it read
RaceStore(h) ==
    /\ c_run[h].pc = "run"
    /\ c_run[h].steps[c_run[h].idx].kind = "count"
    /\ c_run[h].loaded # None
    /\ stats' = StoreCounter(stats, c_run[h].steps[c_run[h].idx].counter,
                             c_run[h].loaded[1])
    /\ c_run' = [c_run EXCEPT ![h] = Advance(h)]
    /\ UNCHANGED <<schema, db, writes, calls, pc, batch, last, resp, c_events>>
    /\ UNCHANGED rl_vars
    /\ UNCHANGED q_vars

NextRace ==
    \E h \in Handlers :
        RaceBegin(h, WriteRecords) \/ RaceExecute(h) \/ RaceLoad(h) \/ RaceStore(h)

SpecRace == InitRace /\ [][NextRace]_vars

---------------------------------------------------------------------------
(* Claims about concurrent handlers, checked under SpecRace *)

\* the successful INSERTs into table t among the blocks handler h has executed
InsertsDone(h, t) ==
    LET run == c_run[h]
        blocks == {i \in 1..Len(run.steps) :
                      i < run.idx /\ run.steps[i].kind = "execute"}
        Done(i) == {j \in 1..Len(run.steps[i].stmts) :
                       /\ run.steps[i].stmts[j].stmt = "insert"
                       /\ run.steps[i].stmts[j].ok
                       /\ run.steps[i].stmts[j].table = t}
    IN UNION {{<<h, i, j>> : j \in Done(i)} : i \in blocks}

\* C22: with insert handlers running concurrently on one stats dict whose
\* counters are updated by a read and a later write, updates may be lost but
\* every counter is at most the number of events of its kind so far, and the
\* rows written are those of the statements the handlers executed, race or
\* no race.
C22_CountersBoundedByEvents ==
    /\ \A c \in Counters : DictGetDefault(stats, c, 0) <= c_events[c]
    /\ \A t \in AllTables :
          Len(db[t]) = Cardinality(UNION {InsertsDone(h, t) : h \in Handlers})

\* both handlers are done and an update was lost
C22_Witness ==
    /\ \A h \in Handlers : c_run[h].pc = "done"
    /\ \E c \in Counters \ {"total_requests"} :
          DictGetDefault(stats, c, 0) < c_events[c]
    /\ \E t \in AllTables : Len(db[t]) = 2

---------------------------------------------------------------------------
(* query_table while another request inserts                                *)
(*                                                                          *)
(* query_table executes the COUNT statement and then the page SELECT, two   *)
(* statements with no transaction around them.  The POSTs of other requests *)
(* run meanwhile, step by step as under SpecRace: the route's update of     *)
(* total_requests, the statements of insert_record, each INSERT committing  *)
(* on its own, and the counter updates; any of these may fall between the   *)
(* two statements of query_table.  c_run.reader is the position of the      *)
(* query_table call.  The records posted have a value for every column of   *)
(* the table.                                                               *)

InitSnapshot ==
    /\ schema \in {TableNames, TableNames \cup {TransformedName("sensor")}}
    /\ db = [t \in AllTables |-> <<>>]
    /\ stats = ZeroStats
    /\ writes = {}
    /\ calls = 0
    /\ pc = "idle"
    /\ batch = [table |-> "", records |-> <<>>, idx |-> 0,
                success_count |-> 0, error_count |-> 0]
    /\ last = [op |-> "none"]
    /\ resp = [kind |-> "none"]
    /\ RateIdle
    /\ QueryIdle
    /\ c_run = [h \in Handlers |-> [pc |-> "idle", steps |-> <<>>, idx |-> 1,
                                    loaded |-> None]]
               @@ [reader |-> [pc |-> "idle"]]
    /\ c_events = [c \in Counters |-> 0]

\* query_table up to and including its COUNT statement: the checks of the
\* arguments, get_connection(), the count.  A call that fails returns here;
\* one that counted keeps its arguments and total_count in c_run.reader.
\* The page sizes asked for: the default, one row, and one above the ceiling.
QueryTableCount ==
    /\ q_last.op = "none"
    /\ c_run.reader.pc = "idle"
    /\ \E table_name \in {"sensor", TransformedName("sensor")}, w \in DirectWheres,
          limit \in {None, Some(1), Some(MAX_LIMIT + 1)},
          offset \in {None, Some(1)} :
       \E tables \in {StoreSeen(schema, db)} :
       \E r \in {query_table(table_name, w.conditions, w.params, limit, offset,
                             tables, NoFaults)} :
          IF r.success
          THEN /\ c_run' = [c_run EXCEPT !.reader =
                               [pc |-> "counted", table_name |-> table_name,
                                conditions |-> w.conditions, params |-> w.params,
                                limit |-> limit, offset |-> offset,
                                total_count |-> r.body.total_count]]
               /\ UNCHANGED q_vars
          ELSE /\ q_store' = tables
               /\ q_faults' = NoFaults
               /\ q_last' = [op |-> "query_table", table_name |-> table_name,
                             conditions |-> w.conditions, params |-> w.params,
                             limit |-> limit, offset |-> offset, result |-> r]
               /\ UNCHANGED c_run
    /\ UNCHANGED write_vars
    /\ UNCHANGED rl_vars
    /\ UNCHANGED c_events

\* the rest of query_table: the page SELECT on the tables as they are now,
\* and the response built from its rows and the total_count counted before
QueryTablePage ==
    /\ q_last.op = "none"
    /\ c_run.reader.pc = "counted"
    /\ \E call \in {c_run.reader} :
       \E tables \in {StoreSeen(schema, db)} :
       \E r \in {query_table(call.table_name, call.conditions, call.params,
                             call.limit, call.offset, tables, NoFaults)} :
          /\ q_store' = tables
          /\ q_faults' = NoFaults
          /\ q_last' = [op |-> "query_table", table_name |-> call.table_name,
                        conditions |-> call.conditions, params |-> call.params,
                        limit |-> call.limit, offset |-> call.offset,
                        result |-> QueryResponse(r.body.data, call.total_count,
                                                 r.body.limit, r.body.offset)]
    /\ c_run' = [c_run EXCEPT !.reader = [pc |-> "done"]]
    /\ UNCHANGED write_vars
    /\ UNCHANGED rl_vars
    /\ UNCHANGED c_events

NextSnapshot ==
    \/ \E h \in Handlers :
          RaceBegin(h, ReadBackRecords) \/ RaceExecute(h) \/ RaceLoad(h) \/ RaceStore(h)
    \/ QueryTableCount
    \/ QueryTablePage

SpecSnapshot == InitSnapshot /\ [][NextSnapshot]_vars

---------------------------------------------------------------------------
(* Claims about query_table under concurrent inserts, checked under         *)
(* SpecSnapshot                                                             *)

\* C28: every successful result of query_table has count <= total_count,
\* also when another request inserts rows into the table between the
\* COUNT statement and the page SELECT.
C28_CountWithinTotal ==
    (QueryTableCall /\ q_last.result.success)
        => q_last.result.body.count <= q_last.result.body.total_count

=============================================================================
